---- MODULE Spec2Model ----
(***************************************************************************)
(* A model of the fileshaker command line tools.                           *)
(*                                                                         *)
(*   Spec       one run of a dedupe tool over a source tree: the v2 tool   *)
(*              (src/cli/v2/dedupe/script.py: cache, size buckets, hashes, *)
(*              byte comparison, report, copy) or the v1 tool              *)
(*              (src/cli/v1/main.py: hash, list, remove).                  *)
(*   SpecRerun  the v2 tool run a second time over the same tree, the      *)
(*              cache file carried over.                                   *)
(*   SpecCache  get_file_hash of the v2 tool called again and again with   *)
(*              one cache, the files modified between the calls.           *)
(*   SpecDiff   the v2 diff tool (src/cli/v2/diff/script.py) over two      *)
(*              trees.                                                     *)
(*                                                                         *)
(* A file is a record [content, mtime, readable, exists]; its content is a *)
(* sequence of bytes.  A path is the file's position in the tree's         *)
(* enumeration order (the order rglob / os.walk yields); Name(p) is the    *)
(* text of the path.  SHA-256 is abstracted to a one-bit digest that is    *)
(* computed block by block, so that different contents with equal digests  *)
(* exist and the code's handling of collisions is exercised.               *)
(***************************************************************************)
EXTENDS Integers, Sequences, FiniteSets, TLC

\* Bounds of the model.
MaxFiles == 4
MaxRerunFiles == 2
MaxDiffFiles == 2
MaxCacheFiles == 1
MaxChanges == 2
\* The block size of the chunked reads (8192 and 65536 in the code), scaled
\* to the model's file lengths.
BlockSize == 1

\* File contents the trees are drawn from: an empty file, two one-byte files
\* with different digests, and two two-byte files that extend <<1>> by a
\* block, agree on their first block and have the same digest.
Contents == { <<>>, <<1>>, <<2>>, <<1, 1>>, <<1, 3>> }
Mtimes == {1, 2}
None == "None"

VARIABLES
  tool,           \* which program runs: "v2", "v1" or "diff"
  tree,           \* the source tree: sequence of files in enumeration order
  cacheFile,      \* the cache file on disk: [kind, data]
  pc,             \* position of the run
  cache,          \* v2: the in-memory cache: [kind, data]
  files_to_check, \* v2: find_duplicates' list of files to hash
  hashIdx,        \* v2: position of the hashing loop in files_to_check
  hash_to_files,  \* v2: ordered dict digest -> list of paths
  resIdx,         \* v2: position of the loop over hash_to_files.values()
  inWhile,        \* v2: inside the `while file_list` loop of that entry
  duplicates,     \* v2: list of groups / v1: list of duplicate paths
  unique_files,   \* v2: list of unique entries
  computed,       \* v2: paths compute_file_hash was called on in this run
  report,         \* v2: the report written to output_json
  dryrun,         \* the dry-run option, "unread" until the run reads it
  target,         \* v2: files copied into the target directory
  run,            \* number of the run (SpecRerun)
  first,          \* what the first run started from and produced (SpecRerun)
  pending,        \* v1: paths whose hashing future has not completed
  seen_hashes,    \* v1: ordered dict digest -> first path seen
  treeB,          \* diff: the second tree
  diffOut,        \* diff: result of find_unique_files
  stored,         \* SpecCache: the stores get_file_hash has made
  lastCall,       \* SpecCache: the latest get_file_hash call
  fileIdx,        \* merge, Django: position of the loop over the walked files
  files_seen,     \* merge: ordered dict digest -> list of paths
  files_copied,   \* merge: ordered dict path -> path below the target folder
  total_size,     \* merge: bytes copied
  target_folder,  \* merge: the files of the target folder, by path
  files_by_hash,  \* Django: ordered dict digest -> list of paths
  hash_threshold, \* copy_and_filter: the hash_threshold option
  num_threads,    \* copy_and_filter: the num_threads option
  queue,          \* copy_and_filter: the items of the Queue q, oldest first
  unfinished_tasks, \* copy_and_filter: the Queue's count of items not done
  putIdx,         \* copy_and_filter: position of main's loops over the queue
  worker_pc,      \* copy_and_filter: position of each worker thread
  worker_item,    \* copy_and_filter: the item each worker took from the queue
  hashes,         \* copy_and_filter: the list the workers append to
  image_groups,   \* copy_and_filter: result of group_similar_images
  similar_images_data, \* copy_and_filter: the list written to similar_images.json
  max_threads,    \* copy_media: the max_threads option
  media_pc,       \* copy_media: position of process_file for each file
  media_hash,     \* copy_media: file_hash of each process_file call
  media_target,   \* copy_media: target_path of each process_file call
  copied_files_count, \* copy_media: the count main reports
  target_dir,     \* v2: whether main has created the target directory
  hash1,          \* calculate_hamming_distance: its first argument
  hash2,          \* calculate_hamming_distance: its second argument
  returned        \* the list holding the result of a function called on its own

vars == << tool, tree, cacheFile, pc, cache, files_to_check, hashIdx,
           hash_to_files, resIdx, inWhile, duplicates, unique_files, computed,
           report, dryrun, target, run, first, pending, seen_hashes, treeB,
           diffOut, stored, lastCall, fileIdx, files_seen, files_copied,
           total_size, target_folder, files_by_hash, hash_threshold,
           num_threads, queue, unfinished_tasks, putIdx, worker_pc, worker_item,
           hashes, image_groups, similar_images_data, max_threads, media_pc,
           media_hash, media_target, copied_files_count, target_dir,
           hash1, hash2, returned >>

v2vars == << cache, files_to_check, hashIdx, hash_to_files, resIdx, inWhile,
             unique_files, computed, report, target >>
v1vars == << pending, seen_hashes >>
diffvars == << treeB, diffOut >>
histvars == << run, first, stored, lastCall >>
mergevars == << fileIdx, files_seen, files_copied, total_size, target_folder >>
djangovars == << files_by_hash >>
\* the variables of the tools other than v2 dedupe, v1 dedupe and v2 diff
threadvars == << queue, unfinished_tasks, putIdx, worker_pc, worker_item >>
imgvars == << hash_threshold, num_threads, threadvars, hashes, image_groups,
              similar_images_data >>
mediavars == << max_threads, media_pc, media_hash, media_target,
                copied_files_count >>
toolvars == << mergevars, djangovars, imgvars, mediavars >>
hamvars == << hash1, hash2, returned >>
extvars == << toolvars, target_dir, hamvars >>

\* the other tools before they run
MergeIdle ==
  /\ fileIdx = 1 /\ files_seen = <<>> /\ files_copied = <<>>
  /\ total_size = 0 /\ target_folder = <<>>
DjangoIdle == files_by_hash = <<>>
ImagesIdle ==
  /\ hash_threshold = 0 /\ num_threads = 0
  /\ queue = <<>> /\ unfinished_tasks = 0 /\ putIdx = 1
  /\ worker_pc = <<>> /\ worker_item = <<>>
  /\ hashes = <<>> /\ image_groups = <<>> /\ similar_images_data = <<>>
MediaIdle ==
  /\ max_threads = 0 /\ media_pc = <<>> /\ media_hash = <<>>
  /\ media_target = <<>> /\ copied_files_count = 0
HammingIdle == hash1 = <<>> /\ hash2 = <<>> /\ returned = <<>>
InitExt == MergeIdle /\ DjangoIdle /\ ImagesIdle /\ MediaIdle /\ HammingIdle

-----------------------------------------------------------------------------
(* Generic helpers *)

Min(a, b) == IF a < b THEN a ELSE b

Range(s) == { s[i] : i \in 1..Len(s) }

RECURSIVE SumSeq(_)
SumSeq(s) == IF s = <<>> THEN 0 ELSE Head(s) + SumSeq(Tail(s))

RECURSIVE Flatten(_)
Flatten(ss) == IF ss = <<>> THEN <<>> ELSE Head(ss) \o Flatten(Tail(ss))

\* d.setdefault(k, []).append(v) on an insertion-ordered dict of lists
SetDefaultAppend(d, k, v) ==
  IF \E j \in 1..Len(d) : d[j].key = k
  THEN [ j \in 1..Len(d) |->
           IF d[j].key = k
           THEN [key |-> k, files |-> Append(d[j].files, v)]
           ELSE d[j] ]
  ELSE Append(d, [key |-> k, files |-> <<v>>])

-----------------------------------------------------------------------------
(* Files, reads and digests *)

File(c, m, r) == [content |-> c, mtime |-> m, readable |-> r, exists |-> TRUE]

\* f.read(BlockSize) at offset pos: the next block, empty at end of file
ReadBlock(c, pos) == SubSeq(c, pos + 1, Min(pos + BlockSize, Len(c)))

\* hash_obj.update(chunk) on the one-bit digest state
HashUpdate(acc, chunk) == (acc + SumSeq(chunk)) % 2

HexDigest(acc) == IF acc = 0 THEN "h0" ELSE "h1"

Digests == { HexDigest(0), HexDigest(1) }

RECURSIVE HashLoop(_, _, _)
HashLoop(c, pos, acc) ==
  LET chunk == ReadBlock(c, pos) IN
  IF chunk = <<>> THEN acc
  ELSE HashLoop(c, pos + BlockSize, HashUpdate(acc, chunk))

\* compute_file_hash: None when the file cannot be read
compute_file_hash(f) ==
  IF ~f.readable THEN None ELSE HexDigest(HashLoop(f.content, 0, 0))

\* a comparison that answers after the first pair of blocks
CompareFirstBlock(c1, c2, pos) == ReadBlock(c1, pos) = ReadBlock(c2, pos)

RECURSIVE CompareLoop(_, _, _)
CompareLoop(c1, c2, pos) ==
  LET b1 == ReadBlock(c1, pos)
      b2 == ReadBlock(c2, pos) IN
  IF b1 # b2 THEN FALSE
  ELSE IF b1 = <<>> THEN TRUE
  ELSE CompareLoop(c1, c2, pos + BlockSize)

\* files_are_identical: False when either file cannot be opened or read
files_are_identical(f1, f2) ==
  IF ~f1.readable \/ ~f2.readable THEN FALSE
  ELSE CompareLoop(f1.content, f2.content, 0)

-----------------------------------------------------------------------------
(* Path texts and cache keys *)

DigitChars == << "0", "1", "2", "3", "4", "5", "6", "7", "8", "9" >>

RECURSIVE Str(_)
Str(n) == IF n < 10 THEN << DigitChars[n + 1] >>
          ELSE Str(n \div 10) \o << DigitChars[(n % 10) + 1] >>

\* the text of path p: "a", "a1", "a2", ...
Name(p) == IF p = 1 THEN << "a" >> ELSE << "a" >> \o Str(p - 1)

\* str() of the float st_mtime
MtimeStr(m) == Str(m) \o << ".", "0" >>

\* a key that leaves the modification time out
cache_key_without_mtime(p, f) ==
  Name(p) \o << ":" >> \o Str(Len(f.content))

\* f"{file_path}:{stat.st_size}:{stat.st_mtime}"
cache_key(p, f) ==
  Name(p) \o << ":" >> \o Str(Len(f.content)) \o << ":" >> \o MtimeStr(f.mtime)

EmptyDict == [ k \in {} |-> None ]

DictCache(d) == [kind |-> "dict", data |-> d]
\* a cache file that is not a JSON object: "corrupt" cannot be opened or
\* parsed, "array" parses to a list or string, "scalar" to a number or null
OtherCache(k) == [kind |-> k, data |-> EmptyDict]

-----------------------------------------------------------------------------
(* The v2 dedupe tool: src/cli/v2/dedupe/script.py *)

\* a get_file_hash that computes and never stores
get_file_hash_without_store(p, f, c) ==
  IF c.kind = "dict" /\ cache_key(p, f) \in DOMAIN c.data
  THEN [result |-> c.data[cache_key(p, f)], cache |-> c, called |-> FALSE]
  ELSE [result |-> IF c.kind = "dict" THEN compute_file_hash(f) ELSE None,
        cache |-> c, called |-> c.kind # "scalar"]

\* get_file_hash(file_path, cache): the value returned, the cache afterwards
\* and whether compute_file_hash was called.  A cache that is not a dict
\* raises TypeError inside the try block (a scalar at `in`, an array at the
\* item assignment), which the except clause turns into None.
get_file_hash(p, f, c) ==
  LET key == cache_key(p, f) IN
  IF c.kind = "scalar"
  THEN [result |-> None, cache |-> c, called |-> FALSE]
  ELSE IF c.kind = "array"
  THEN [result |-> None, cache |-> c, called |-> TRUE]
  ELSE IF key \in DOMAIN c.data
  THEN [result |-> c.data[key], cache |-> c, called |-> FALSE]
  ELSE LET filehash == compute_file_hash(f) IN
       [result |-> filehash,
        cache  |-> IF filehash # None
                   THEN DictCache((key :> filehash) @@ c.data)
                   ELSE c,
        called |-> TRUE]

\* file_sizes[str(file_path)]
file_sizes(tr, p) == Len(tr[p].content)

Entry(tr, p) == [path |-> p, size |-> file_sizes(tr, p)]

\* source_dir.rglob('*') filtered by is_file(), in enumeration order
ScanPaths(tr) == SelectSeq([i \in 1..Len(tr) |-> i], LAMBDA p : tr[p].exists)

RECURSIVE BuildBySize(_, _, _)
BuildBySize(tr, paths, d) ==
  IF paths = <<>> THEN d
  ELSE BuildBySize(tr, Tail(paths),
                   SetDefaultAppend(d, file_sizes(tr, Head(paths)), Head(paths)))

files_by_size(tr) == BuildBySize(tr, ScanPaths(tr), <<>>)

\* every size bucket, whatever it holds
every_bucket(tr) == files_by_size(tr)

potential_dups(tr) ==
  SelectSeq(files_by_size(tr), LAMBDA e : Len(e.files) > 1)

FilesToCheck(tr) ==
  LET pd == potential_dups(tr) IN
  Flatten([ i \in 1..Len(pd) |-> pd[i].files ])

\* load_cache: json.load raises on a file that cannot be opened or parsed
load_cache(cf) ==
  IF cf.kind = "absent" THEN DictCache(EmptyDict) ELSE cf

NoFirst == [set |-> FALSE]
NoCall == [made |-> FALSE]
NoStores == [all |-> {}, latest |-> {}]

LoadCache ==
  /\ tool = "v2" /\ pc = "start"
  /\ IF cacheFile.kind = "corrupt"
     THEN pc' = "crashed" /\ UNCHANGED cache
     ELSE pc' = "scan" /\ cache' = load_cache(cacheFile)
  /\ UNCHANGED << tool, tree, cacheFile, files_to_check, hashIdx,
                  hash_to_files, resIdx, inWhile, duplicates, unique_files,
                  computed, report, dryrun, target >>
  /\ UNCHANGED << v1vars, diffvars, histvars, extvars >>

\* find_duplicates, lines 67-82: the size buckets and the files to check
Scan ==
  /\ tool = "v2" /\ pc = "scan"
  /\ files_to_check' = FilesToCheck(tree)
  /\ hashIdx' = 1
  /\ hash_to_files' = <<>>
  /\ pc' = IF files_to_check' = <<>> THEN "found" ELSE "hashing"
  /\ UNCHANGED << tool, tree, cacheFile, cache, resIdx, inWhile, duplicates,
                  unique_files, computed, report, dryrun, target >>
  /\ UNCHANGED << v1vars, diffvars, histvars, extvars >>

\* find_duplicates, lines 83-87: one iteration of the hashing loop
HashStep ==
  /\ tool = "v2" /\ pc = "hashing"
  /\ LET p == files_to_check[hashIdx]
         r == get_file_hash(p, tree[p], cache) IN
     /\ cache' = r.cache
     /\ computed' = IF r.called THEN computed \cup {p} ELSE computed
     /\ hash_to_files' = IF r.result # None
                         THEN SetDefaultAppend(hash_to_files, r.result, p)
                         ELSE hash_to_files
     /\ hashIdx' = hashIdx + 1
     /\ pc' = IF hashIdx < Len(files_to_check) THEN "hashing"
              ELSE IF hash_to_files' = <<>> THEN "found" ELSE "resolving"
  /\ resIdx' = 1
  /\ inWhile' = FALSE
  /\ UNCHANGED << tool, tree, cacheFile, files_to_check, duplicates,
                  unique_files, report, dryrun, target >>
  /\ UNCHANGED << v1vars, diffvars, histvars, extvars >>

\* at most the first file of file_list that compares identical to the reference
FirstIdenticalTo(tr, reference, file_list) ==
  LET same == SelectSeq(file_list,
                LAMBDA other_file : files_are_identical(tr[reference], tr[other_file]))
  IN IF same = <<>> THEN <<>> ELSE << same[1] >>

\* the files of file_list that compare identical to the reference, in order
IdenticalTo(tr, reference, file_list) ==
  SelectSeq(file_list,
            LAMBDA other_file : files_are_identical(tr[reference], tr[other_file]))

\* a pop from the front of the list
PopFront(file_list) == [reference |-> Head(file_list), rest |-> Tail(file_list)]

\* a pop that drops the file before the last one with it
PopTwo(file_list) ==
  [reference |-> file_list[Len(file_list)],
   rest |-> SubSeq(file_list, 1, Len(file_list) - 2)]

\* reference = file_list.pop(): the last file of the list, and the list left
Pop(file_list) ==
  [reference |-> file_list[Len(file_list)],
   rest |-> SubSeq(file_list, 1, Len(file_list) - 1)]

\* find_duplicates, lines 91-111: one iteration of `while file_list` (the
\* first one only when the list has more than one file), or the else branch
ResolveStep ==
  /\ tool = "v2" /\ pc = "resolving"
  /\ LET file_list == hash_to_files[resIdx].files IN
     IF inWhile \/ Len(file_list) > 1
     THEN LET reference == Pop(file_list).reference
              popped == Pop(file_list).rest
              same == IdenticalTo(tree, reference, popped)
              rest == SelectSeq(popped, LAMBDA q : q \notin Range(same))
              group == << Entry(tree, reference) >>
                         \o [ i \in 1..Len(same) |-> Entry(tree, same[i]) ]
          IN /\ hash_to_files' =
                  [hash_to_files EXCEPT ![resIdx].files = rest]
             /\ IF Len(group) > 1
                THEN /\ duplicates' = Append(duplicates, group)
                     /\ UNCHANGED unique_files
                ELSE /\ unique_files' = Append(unique_files, group[1])
                     /\ UNCHANGED duplicates
             /\ inWhile' = (rest # <<>>)
             /\ resIdx' = IF rest = <<>> THEN resIdx + 1 ELSE resIdx
             /\ pc' = IF rest = <<>> /\ resIdx = Len(hash_to_files)
                      THEN "found" ELSE "resolving"
     ELSE /\ unique_files' = Append(unique_files, Entry(tree, file_list[1]))
          /\ resIdx' = resIdx + 1
          /\ pc' = IF resIdx = Len(hash_to_files) THEN "found" ELSE "resolving"
          /\ UNCHANGED << hash_to_files, duplicates, inWhile >>
  /\ UNCHANGED << tool, tree, cacheFile, cache, files_to_check, hashIdx,
                  computed, report, dryrun, target >>
  /\ UNCHANGED << v1vars, diffvars, histvars, extvars >>

\* A KeyboardInterrupt while find_duplicates runs is no Exception: no except
\* clause catches it and main has no finally, so the process exits at once.
Interrupt ==
  /\ tool = "v2" /\ pc \in {"scan", "hashing", "resolving"}
  /\ pc' = "interrupted"
  /\ UNCHANGED << tool, tree, cacheFile, cache, files_to_check, hashIdx,
                  hash_to_files, resIdx, inWhile, duplicates, unique_files,
                  computed, report, dryrun, target >>
  /\ UNCHANGED << v1vars, diffvars, histvars, extvars >>

\* save_cache: json.dump of the in-memory cache
SaveCache ==
  /\ tool = "v2" /\ pc = "found"
  /\ cacheFile' = cache
  /\ pc' = "saved"
  /\ UNCHANGED << tool, tree, cache, files_to_check, hashIdx, hash_to_files,
                  resIdx, inWhile, duplicates, unique_files, computed, report,
                  dryrun, target >>
  /\ UNCHANGED << v1vars, diffvars, histvars, extvars >>

GroupSizes(group) == [ i \in 1..Len(group) |-> group[i].size ]

\* main, lines 145-154
Summary(dups, uniq) ==
  [ total_duplicate_groups |-> Len(dups),
    total_duplicate_files |-> SumSeq([ g \in 1..Len(dups) |-> Len(dups[g]) ]),
    total_redundant_files |->
      SumSeq([ g \in 1..Len(dups) |-> Len(dups[g]) - 1 ]),
    total_redundant_size_bytes |->
      SumSeq([ g \in 1..Len(dups) |-> SumSeq(Tail(GroupSizes(dups[g]))) ]),
    total_files_to_copy |-> Len(uniq) + Len(dups),
    total_size_to_copy_bytes |->
      SumSeq(GroupSizes(uniq))
        + SumSeq([ g \in 1..Len(dups) |-> dups[g][1].size ]) ]

\* main, lines 157-170: the report written to output_json
WriteReport ==
  /\ tool = "v2" /\ pc = "saved"
  /\ report' = << [summary |-> Summary(duplicates, unique_files),
                   duplicates |-> duplicates] >>
  /\ pc' = "reported"
  /\ UNCHANGED << tool, tree, cacheFile, cache, files_to_check, hashIdx,
                  hash_to_files, resIdx, inWhile, duplicates, unique_files,
                  computed, dryrun, target >>
  /\ UNCHANGED << v1vars, diffvars, histvars, extvars >>

\* the sources main copies, in order: the unique files, then group[0] of
\* every duplicate group
CopySources(dups, uniq) ==
  [ i \in 1..Len(uniq) |-> uniq[i].path ]
    \o [ g \in 1..Len(dups) |-> dups[g][1].path ]

\* shutil.copy2 raises on a source that cannot be read, which ends the run
RECURSIVE CopyLoop(_, _, _)
CopyLoop(tr, srcs, tgt) ==
  IF srcs = <<>> THEN [target |-> tgt, ok |-> TRUE]
  ELSE IF ~tr[Head(srcs)].readable THEN [target |-> tgt, ok |-> FALSE]
  ELSE CopyLoop(tr, Tail(srcs),
                tgt \cup {[path |-> Head(srcs), content |-> tr[Head(srcs)].content]})

\* a test that takes the copying branch whatever the option says
AlwaysCopy(d) == TRUE

\* main, line 174: `if not dryrun`
ShouldCopy(d) == d = "false"

\* main, lines 174-199: the copy, or the end of a dry run
Finish ==
  /\ tool = "v2" /\ pc = "reported"
  /\ \E d \in {"true", "false"} :
       /\ dryrun' = d
       /\ IF ~ShouldCopy(d)
          THEN pc' = "done" /\ UNCHANGED << target, target_dir, hamvars >>
          ELSE LET r == CopyLoop(tree, CopySources(duplicates, unique_files), target) IN
               /\ target_dir' = "created"
               /\ target' = r.target
               /\ pc' = IF r.ok THEN "done" ELSE "crashed"
  /\ UNCHANGED << tool, tree, cacheFile, cache, files_to_check, hashIdx,
                  hash_to_files, resIdx, inWhile, duplicates, unique_files,
                  computed, report >>
  /\ UNCHANGED << v1vars, diffvars, histvars, toolvars, hamvars >>

-----------------------------------------------------------------------------
(* Initial states *)

\* The code never sees the bytes of a file it cannot read, only its size:
\* one unreadable file per size stands for all of them.
UnreadableContents == { <<1>>, <<1, 1>> }

InitFiles == { File(c, 1, TRUE) : c \in Contents }
               \cup { File(c, 1, FALSE) : c \in UnreadableContents }

Trees(n) == UNION { [1..k -> InitFiles] : k \in 0..n }

\* a cache file with, for every file chosen by ch, an entry under the file's
\* current key that holds the digest ch names (right or wrong)
RECURSIVE InitCacheData(_, _, _)
InitCacheData(tr, ch, i) ==
  IF i > Len(tr) THEN EmptyDict
  ELSE IF ch[i] = None THEN InitCacheData(tr, ch, i + 1)
  ELSE (cache_key(i, tr[i]) :> ch[i]) @@ InitCacheData(tr, ch, i + 1)

CacheFiles(tr) ==
  { OtherCache(k) : k \in {"absent", "corrupt", "array", "scalar"} }
    \cup { DictCache(InitCacheData(tr, ch, 1)) :
             ch \in [1..Len(tr) -> Digests \cup {None}] }

InitRun ==
  /\ pc = "start"
  /\ files_to_check = <<>> /\ hashIdx = 1 /\ hash_to_files = <<>>
  /\ resIdx = 1 /\ inWhile = FALSE
  /\ duplicates = <<>> /\ unique_files = <<>>
  /\ computed = {} /\ report = <<>> /\ dryrun = "unread" /\ target = {}
  /\ pending = {} /\ seen_hashes = EmptyDict
  /\ target_dir = "absent"

InitV2 ==
  /\ tool = "v2"
  /\ tree \in Trees(MaxFiles)
  /\ cacheFile \in CacheFiles(tree)
  /\ InitRun /\ InitExt
  /\ cache = OtherCache("unloaded")
  /\ run = 1 /\ first = NoFirst /\ stored = NoStores /\ lastCall = NoCall
  /\ treeB = <<>> /\ diffOut = <<>>

V2Next ==
  \/ LoadCache \/ Scan \/ HashStep \/ ResolveStep \/ Interrupt
  \/ SaveCache \/ WriteReport \/ Finish

-----------------------------------------------------------------------------
(* The v1 dedupe tool: src/cli/v1/main.py *)

\* a hash_file that yields a digest also for a file it cannot read
hash_file_of_any(f) == HexDigest(HashLoop(f.content, 0, 0))

\* hash_file: the digest, None when the file cannot be read
hash_file(f) ==
  IF ~f.readable THEN None ELSE HexDigest(HashLoop(f.content, 0, 0))

\* dedupe, lines 43-57: the walk, and one future submitted per file
V1Scan ==
  /\ tool = "v1" /\ pc = "start"
  /\ pending' = Range(ScanPaths(tree))
  /\ pc' = "hashing"
  /\ UNCHANGED << tool, tree, cacheFile, duplicates, dryrun, seen_hashes >>
  /\ UNCHANGED << v2vars, diffvars, histvars, extvars >>

\* dedupe, lines 59-67: as_completed yields the futures in any order
V1Complete(path) ==
  /\ tool = "v1" /\ pc = "hashing" /\ path \in pending
  /\ pending' = pending \ {path}
  /\ LET file_hash == hash_file(tree[path]) IN
     IF file_hash # None
     THEN IF file_hash \in DOMAIN seen_hashes
          THEN duplicates' = Append(duplicates, path) /\ UNCHANGED seen_hashes
          ELSE seen_hashes' = (file_hash :> path) @@ seen_hashes
               /\ UNCHANGED duplicates
     ELSE UNCHANGED << duplicates, seen_hashes >>
  /\ UNCHANGED << tool, tree, cacheFile, pc, dryrun >>
  /\ UNCHANGED << v2vars, diffvars, histvars, extvars >>

\* a removal that also takes the files that were kept
RemoveEveryFile(tr, dups) ==
  [ i \in 1..Len(tr) |-> [tr[i] EXCEPT !.exists = FALSE] ]

\* os.remove(dup) for every listed duplicate
RemoveAll(tr, dups) ==
  [ i \in 1..Len(tr) |->
      IF i \in Range(dups) THEN [tr[i] EXCEPT !.exists = FALSE] ELSE tr[i] ]

\* dedupe, lines 70-88: the table, then the removal unless dry_run
V1Finish ==
  /\ tool = "v1" /\ pc = "hashing" /\ pending = {}
  /\ \E d \in {"true", "false"} :
       /\ dryrun' = d
       /\ tree' = IF duplicates # <<>> /\ d = "false"
                  THEN RemoveAll(tree, duplicates) ELSE tree
  /\ pc' = "done"
  /\ UNCHANGED << tool, cacheFile, duplicates, pending, seen_hashes >>
  /\ UNCHANGED << v2vars, diffvars, histvars, extvars >>

InitV1 ==
  /\ tool = "v1"
  /\ tree \in Trees(MaxFiles)
  /\ cacheFile = OtherCache("absent")
  /\ InitRun /\ InitExt
  /\ cache = OtherCache("unloaded")
  /\ run = 1 /\ first = NoFirst /\ stored = NoStores /\ lastCall = NoCall
  /\ treeB = <<>> /\ diffOut = <<>>

V1Next == V1Scan \/ (\E path \in 1..Len(tree) : V1Complete(path)) \/ V1Finish

-----------------------------------------------------------------------------
(* The v2 diff tool: src/cli/v2/diff/script.py *)

\* a path of the diff: the folder and the position in its walk
DPath(side, i) == [side |-> side, i |-> i]
DFile(ta, tb, q) == IF q.side = "a" THEN ta[q.i] ELSE tb[q.i]

\* compute_hash: None when the file cannot be read
compute_hash(f) ==
  IF ~f.readable THEN None ELSE HexDigest(HashLoop(f.content, 0, 0))

\* compare_files: zip() over the two block iterators ends with the shorter
\* one; a block pair that differs returns False, the end of zip returns True
RECURSIVE CompareZip(_, _, _)
CompareZip(c1, c2, pos) ==
  LET b1 == ReadBlock(c1, pos)
      b2 == ReadBlock(c2, pos) IN
  IF b1 = <<>> \/ b2 = <<>> THEN TRUE
  ELSE IF b1 # b2 THEN FALSE
  ELSE CompareZip(c1, c2, pos + BlockSize)

compare_files(f1, f2) ==
  IF ~f1.readable \/ ~f2.readable THEN FALSE
  ELSE CompareZip(f1.content, f2.content, 0)

\* get_files_with_size(folder)[size]: the folder's files of that size, in
\* walk order
FilesOfSize(tr, side, size) ==
  LET idx == SelectSeq([i \in 1..Len(tr) |-> i],
                       LAMBDA i : tr[i].exists /\ Len(tr[i].content) = size)
  IN [ j \in 1..Len(idx) |-> DPath(side, idx[j]) ]

SizeKeys(tr) == { Len(tr[i].content) : i \in { j \in 1..Len(tr) : tr[j].exists } }

\* hashes_x[file_hash]: the files of the list with that digest, in order
FilesWithHash(tr, files, h) ==
  SelectSeq(files, LAMBDA q : compute_hash(tr[q.i]) = h)

HashKeys(tr, files) ==
  { compute_hash(tr[files[j].i]) : j \in 1..Len(files) } \ {None}

\* the first file_b of the list that compare_files accepts for file_a
\* (the inner loop breaks there), <<>> when there is none
FirstMatch(ta, tb, file_a, files_b) ==
  LET hits == SelectSeq(files_b,
                        LAMBDA file_b : compare_files(DFile(ta, tb, file_a),
                                                      DFile(ta, tb, file_b)))
  IN IF hits = <<>> THEN <<>> ELSE << hits[1] >>

\* find_unique_files: the four sets after the loops.  The sets of one size
\* and digest depend on no other size or digest, so the order in which the
\* code walks the sets common_sizes and common_hashes makes no difference.
find_unique_files(ta, tb) ==
  LET sizes_a == SizeKeys(ta)
      sizes_b == SizeKeys(tb)
      common_sizes == sizes_a \cap sizes_b
      La(size) == FilesOfSize(ta, "a", size)
      Lb(size) == FilesOfSize(tb, "b", size)
      common_hashes(size) == HashKeys(ta, La(size)) \cap HashKeys(tb, Lb(size))
      Wa(size, h) == FilesWithHash(ta, La(size), h)
      Wb(size, h) == FilesWithHash(tb, Lb(size), h)
      matched_a == UNION { UNION {
          { q \in Range(Wa(size, h)) : FirstMatch(ta, tb, q, Wb(size, h)) # <<>> }
            : h \in common_hashes(size) } : size \in common_sizes }
      matched_b == UNION { UNION { UNION {
          Range(FirstMatch(ta, tb, q, Wb(size, h))) : q \in Range(Wa(size, h)) }
            : h \in common_hashes(size) } : size \in common_sizes }
      unmatched_a == UNION { UNION {
          { q \in Range(Wa(size, h)) : FirstMatch(ta, tb, q, Wb(size, h)) = <<>> }
            : h \in common_hashes(size) } : size \in common_sizes }
      unmatched_b == UNION { UNION {
          Range(Wb(size, h)) \ matched_b
            : h \in common_hashes(size) } : size \in common_sizes }
      unique_hash_a == UNION { UNION {
          Range(Wa(size, h))
            : h \in HashKeys(ta, La(size)) \ common_hashes(size) }
            : size \in common_sizes }
      unique_hash_b == UNION { UNION {
          Range(Wb(size, h))
            : h \in HashKeys(tb, Lb(size)) \ common_hashes(size) }
            : size \in common_sizes }
      unique_size_a == UNION { Range(La(size)) : size \in sizes_a \ common_sizes }
      unique_size_b == UNION { Range(Lb(size)) : size \in sizes_b \ common_sizes }
  IN [ unique_to_a |-> unmatched_a \cup unique_hash_a \cup unique_size_a,
       unique_to_b |-> unmatched_b \cup unique_hash_b \cup unique_size_b,
       matched_files_a |-> matched_a,
       matched_files_b |-> matched_b ]

\* main, line 142
FindUniqueFiles ==
  /\ tool = "diff" /\ pc = "start"
  /\ diffOut' = << find_unique_files(tree, treeB) >>
  /\ pc' = "found"
  /\ UNCHANGED << tool, tree, cacheFile, duplicates, dryrun, treeB >>
  /\ UNCHANGED << v2vars, v1vars, histvars, extvars >>

\* main, lines 144-158: the result written to the output file
DiffWrite ==
  /\ tool = "diff" /\ pc = "found"
  /\ report' = << [unique_to_folder_a |-> diffOut[1].unique_to_a,
                   unique_to_folder_b |-> diffOut[1].unique_to_b] >>
  /\ pc' = "done"
  /\ UNCHANGED << tool, tree, cacheFile, duplicates, dryrun, treeB, diffOut,
                  cache, files_to_check, hashIdx, hash_to_files, resIdx,
                  inWhile, unique_files, computed, target >>
  /\ UNCHANGED << v1vars, histvars, extvars >>

InitDiff ==
  /\ tool = "diff"
  /\ tree \in Trees(MaxDiffFiles)
  /\ treeB \in Trees(MaxDiffFiles)
  /\ cacheFile = OtherCache("absent")
  /\ InitRun /\ InitExt
  /\ cache = OtherCache("unloaded")
  /\ run = 1 /\ first = NoFirst /\ stored = NoStores /\ lastCall = NoCall
  /\ diffOut = <<>>

NextDiff == FindUniqueFiles \/ DiffWrite
SpecDiff == InitDiff /\ [][NextDiff]_vars

-----------------------------------------------------------------------------
(* One run of a dedupe tool *)

Init == InitV2 \/ InitV1
Next == V2Next \/ V1Next
Spec == Init /\ [][Next]_vars

-----------------------------------------------------------------------------
(* The v2 dedupe tool run twice *)

\* the contents a file is rewritten with between calls
NewContents == { <<1>>, <<2>>, <<1, 1>> }

\* the tool is started a second time: the tree, the cache file and the
\* target directory are what the first run left
Rerun ==
  /\ tool = "v2" /\ pc \in {"done", "crashed", "interrupted"} /\ run = 1
  /\ run' = run + 1
  /\ first' = [set |-> TRUE, pc |-> pc, tree |-> tree,
               duplicates |-> duplicates, unique_files |-> unique_files,
               report |-> report, computed |-> computed]
  /\ pc' = "start"
  /\ cache' = OtherCache("unloaded")
  /\ files_to_check' = <<>> /\ hashIdx' = 1 /\ hash_to_files' = <<>>
  /\ resIdx' = 1 /\ inWhile' = FALSE
  /\ duplicates' = <<>> /\ unique_files' = <<>>
  /\ computed' = {} /\ report' = <<>> /\ dryrun' = "unread"
  /\ UNCHANGED << tool, tree, cacheFile, target, stored, lastCall >>
  /\ UNCHANGED << v1vars, diffvars, extvars >>

InitRerun ==
  /\ tool = "v2"
  /\ tree \in Trees(MaxRerunFiles)
  /\ cacheFile \in CacheFiles(tree)
  /\ InitRun /\ InitExt
  /\ cache = OtherCache("unloaded")
  /\ run = 1 /\ first = NoFirst /\ stored = NoStores /\ lastCall = NoCall
  /\ treeB = <<>> /\ diffOut = <<>>

NextRerun == V2Next \/ Rerun
SpecRerun == InitRerun /\ [][NextRerun]_vars

-----------------------------------------------------------------------------
(* get_file_hash called repeatedly with one cache *)

StoreOf(p, f, h) ==
  [path |-> p, size |-> Len(f.content), mtime |-> f.mtime, hash |-> h]

\* one call of get_file_hash; stored and lastCall record what it did
CallGetFileHash ==
  /\ tool = "cache"
  /\ \E p \in 1..Len(tree) :
       LET r == get_file_hash(p, tree[p], cache)
           storing == r.cache # cache IN
       /\ cache' = r.cache
       /\ stored' = IF storing
                    THEN [all |-> stored.all \cup {StoreOf(p, tree[p], r.result)},
                          latest |-> { e \in stored.latest : e.path # p }
                                       \cup {StoreOf(p, tree[p], r.result)}]
                    ELSE stored
       /\ lastCall' = [made |-> TRUE, path |-> p, size |-> Len(tree[p].content),
                       mtime |-> tree[p].mtime, result |-> r.result,
                       called |-> r.called, before |-> stored]
  /\ UNCHANGED << tool, tree, cacheFile, pc, files_to_check, hashIdx,
                  hash_to_files, resIdx, inWhile, duplicates, unique_files,
                  computed, report, dryrun, target, run, first >>
  /\ UNCHANGED << v1vars, diffvars, extvars >>

\* another program rewrites one file; run counts the rewrites
ModifyFile ==
  /\ tool = "cache" /\ run <= MaxChanges
  /\ \E p \in 1..Len(tree), c \in NewContents, m \in Mtimes :
       /\ << c, m >> # << tree[p].content, tree[p].mtime >>
       /\ tree' = [tree EXCEPT ![p] = File(c, m, tree[p].readable)]
  /\ run' = run + 1
  /\ UNCHANGED << tool, cacheFile, pc, duplicates, dryrun, first, stored, lastCall >>
  /\ UNCHANGED << v2vars, v1vars, diffvars, extvars >>

InitCache ==
  /\ tool = "cache"
  /\ tree \in { t \in Trees(MaxCacheFiles) :
                  \A i \in 1..Len(t) : t[i].content \in NewContents }
  /\ cacheFile = OtherCache("absent")
  /\ InitRun /\ InitExt
  /\ cache \in { DictCache(EmptyDict), OtherCache("array"), OtherCache("scalar") }
  /\ run = 1 /\ first = NoFirst /\ stored = NoStores /\ lastCall = NoCall
  /\ treeB = <<>> /\ diffOut = <<>>

NextCache == CallGetFileHash \/ ModifyFile
SpecCache == InitCache /\ [][NextCache]_vars

-----------------------------------------------------------------------------
(* Properties of find_duplicates (v2 dedupe), checked under Spec *)

Paths == 1..Len(tree)
GroupPaths(group) == { group[i].path : i \in 1..Len(group) }
GroupedPaths == UNION { GroupPaths(duplicates[g]) : g \in 1..Len(duplicates) }
UniquePaths == { unique_files[i].path : i \in 1..Len(unique_files) }
SizeIsShared(p) == \E q \in Paths \ {p} : file_sizes(tree, q) = file_sizes(tree, p)

\* find_duplicates has returned
Returned == tool = "v2" /\ pc \in {"found", "saved", "reported", "done", "crashed"}
                        /\ cache.kind # "unloaded"

\* the readable files with the content of p
Copies(p) == { q \in Paths : tree[q].readable /\ tree[q].content = tree[p].content }

\* the cache holds the digest of p's content under p's key
CacheRightFor(p) ==
  /\ cache.kind = "dict"
  /\ cache_key(p, tree[p]) \in DOMAIN cache.data
  /\ cache.data[cache_key(p, tree[p])] = compute_file_hash(tree[p])

\* C1: any two files of one duplicate group have the same bytes and the same
\* recorded size, whatever the cache held.
C1_GroupMembersIdentical ==
  tool = "v2" =>
    \A g \in 1..Len(duplicates) :
      \A i, j \in 1..Len(duplicates[g]) :
        LET ei == duplicates[g][i]
            ej == duplicates[g][j] IN
        /\ tree[ei.path].content = tree[ej.path].content
        /\ ei.size = ej.size
        /\ ei.size = Len(tree[ei.path].content)

\* a group was formed although its hash bucket held also a candidate of
\* another size, to which the cache gave the digest of the group's files:
\* the byte comparison kept it out of the group
C1_Witness ==
  /\ Returned /\ cache.kind = "dict" /\ duplicates # <<>>
  /\ \E q \in GroupPaths(duplicates[1]) :
       \E p \in Paths \ GroupPaths(duplicates[1]) :
         /\ SizeIsShared(p) /\ file_sizes(tree, p) # file_sizes(tree, q)
         /\ cache_key(p, tree[p]) \in DOMAIN cache.data
         /\ cache_key(q, tree[q]) \in DOMAIN cache.data
         /\ cache.data[cache_key(p, tree[p])] = cache.data[cache_key(q, tree[q])]

\* C2 (as claimed): a file whose size no other scanned file has is in
\* unique_files when find_duplicates returns (stated for the files that can
\* be read, which C3 does not exclude).
C2_UniqueSizeIsUnique ==
  Returned =>
    \A p \in Paths :
      (tree[p].readable /\ ~SizeIsShared(p)) => Entry(tree, p) \in Range(unique_files)

\* C3 (as claimed): a file that cannot be read is in no duplicate group and
\* not in unique_files.
C3_UnreadableExcluded ==
  Returned =>
    \A p \in Paths : ~tree[p].readable => p \notin UniquePaths \cup GroupedPaths

\* the set of n >= 2 readable copies of p's content forms exactly one group
\* whose first entry is canon
OneGroupWithCanonical(p, canon) ==
  \E g \in 1..Len(duplicates) :
    /\ GroupPaths(duplicates[g]) = Copies(p)
    /\ Len(duplicates[g]) = Cardinality(Copies(p))
    /\ duplicates[g][1].path = canon
    /\ \A h \in 1..Len(duplicates) :
         GroupPaths(duplicates[h]) \cap Copies(p) # {} => h = g

SetMax(S) == CHOOSE x \in S : \A y \in S : y <= x
SetMin(S) == CHOOSE x \in S : \A y \in S : x <= y

HasCopiesRightlyHashed(p) ==
  /\ tree[p].readable
  /\ Cardinality(Copies(p)) >= 2
  /\ \A q \in Copies(p) : CacheRightFor(q)

C8_CorruptCacheNotFatal ==
  (tool = "v2" /\ pc # "start" /\ cacheFile.kind = "corrupt") =>
    (pc # "crashed" /\ cache.kind = "dict")

\* C9 (as claimed): when the run has ended, however it ended, every entry of
\* the in-memory cache is in the cache file.
C9_CacheFlushedOnExit ==
  (tool = "v2" /\ pc \in {"done", "crashed", "interrupted"} /\ cache.kind = "dict") =>
    \A k \in DOMAIN cache.data :
      k \in DOMAIN cacheFile.data /\ cacheFile.data[k] = cache.data[k]

-----------------------------------------------------------------------------
(* Properties of find_unique_files (v2 diff), checked under SpecDiff *)

HasCopyIn(tr, f) == \E j \in 1..Len(tr) : tr[j].readable /\ tr[j].content = f.content

\* C4 (as claimed): a readable file of one tree is reported unique to its
\* tree exactly when the other tree has no readable file with its bytes.
C4_UniqueIffNoCopy ==
  (tool = "diff" /\ pc = "found") =>
    /\ \A i \in 1..Len(treeB) :
         treeB[i].readable =>
           (DPath("b", i) \in diffOut[1].unique_to_b <=> ~HasCopyIn(tree, treeB[i]))
    /\ \A i \in 1..Len(tree) :
         tree[i].readable =>
           (DPath("a", i) \in diffOut[1].unique_to_a <=> ~HasCopyIn(treeB, tree[i]))

-----------------------------------------------------------------------------
(* Properties of the cache of the v2 dedupe tool *)

\* the latest store for the path of the latest call, made before that call
LatestStore(p) == { e \in lastCall.before.latest : e.path = p }
SameStat(e) == e.size = lastCall.size /\ e.mtime = lastCall.mtime

\* C6 (as claimed): once get_file_hash has stored h for a path, a later call
\* for that path returns h without computing when size and mtime are those
\* stored, and computes the hash again when either has changed.
C6_RoundTrip ==
  lastCall.made =>
    \A e \in LatestStore(lastCall.path) :
      IF SameStat(e)
      THEN lastCall.result = e.hash /\ ~lastCall.called
      ELSE lastCall.called

\* C6 (amended): ... when either has changed, the hash is computed again
\* unless an earlier call stored a hash for the path with the size and mtime
\* the file has now, and then that hash is returned.
C6_RoundTripOrOlderEntry ==
  lastCall.made =>
    \A e \in LatestStore(lastCall.path) :
      IF SameStat(e)
      THEN lastCall.result = e.hash /\ ~lastCall.called
      ELSE \/ lastCall.called
           \/ \E o \in lastCall.before.all :
                /\ o.path = lastCall.path /\ SameStat(o)
                /\ lastCall.result = o.hash

\* a call after a store and a change of the file, which computed the hash
\* again and stored it
C6_Witness ==
  /\ lastCall.made /\ lastCall.called /\ lastCall.result # None
  /\ \E e \in LatestStore(lastCall.path) : ~SameStat(e)
  /\ stored # lastCall.before

-----------------------------------------------------------------------------
(* Properties of two runs of the v2 dedupe tool, checked under SpecRerun *)

\* the second run has written its report, the first run had written one, and
\* the tree is the tree of the first run
SecondRunOverSameTree ==
  /\ tool = "v2" /\ run = 2 /\ first.set
  /\ first.report # <<>> /\ report # <<>>
  /\ tree = first.tree

SameOutcome ==
  /\ duplicates = first.duplicates
  /\ unique_files = first.unique_files
  /\ report = first.report

\* C7 (as claimed): the second run over the unchanged tree reports what the
\* first run reported and never calls compute_file_hash.
C7_SecondRunHashesNothing ==
  SecondRunOverSameTree => (SameOutcome /\ computed = {})

\* C7 (amended): the second run over the unchanged tree reports what the
\* first run reported, and calls compute_file_hash only for files that
\* cannot be read or, when the cache file holds a JSON array or string
\* instead of an object, for every candidate file.
C7_SecondRunHashesOnlyFailures ==
  SecondRunOverSameTree =>
    /\ SameOutcome
    /\ \A p \in computed : ~tree[p].readable \/ cache.kind = "array"

\* the first run hashed files and found a group; the second found the same
\* group without hashing
C7_Witness ==
  /\ SecondRunOverSameTree
  /\ first.computed # {} /\ computed = {}
  /\ duplicates # <<>>

-----------------------------------------------------------------------------
(* The source tree under the dedupe tools, checked under Spec *)

\* C10 (as claimed): no step of a dedupe tool deletes or changes a file of
\* the scanned tree.
C10_TreeNeverChanges == [][tree' = tree]_vars

\* C10 (amended): no step of the v2 dedupe tool, and no step of a dry run of
\* the v1 tool, changes the scanned tree; the v1 tool without dry_run removes
\* the files it lists as duplicates and changes no other file.
C10_OnlyV1RemovesDuplicates ==
  [][ /\ tool = "v2" => tree' = tree
      /\ (tool = "v1" /\ tree' # tree) =>
           /\ dryrun' = "false" /\ pc' = "done"
           /\ Len(tree') = Len(tree)
           /\ \A i \in 1..Len(tree) :
                IF i \in Range(duplicates)
                THEN tree'[i] = [tree[i] EXCEPT !.exists = FALSE]
                ELSE tree'[i] = tree[i] ]_vars

\* the v1 tool has removed a duplicate and kept a file
C10_Witness ==
  /\ tool = "v1" /\ pc = "done" /\ dryrun = "false"
  /\ \E i, j \in 1..Len(tree) : ~tree[i].exists /\ tree[j].exists

-----------------------------------------------------------------------------
(* Properties of dedupe (v1), checked under SpecV1 *)

SpecV1 == InitV1 /\ [][V1Next]_vars

\* the file dedupe kept for the digest of p
Retained(p) == seen_hashes[hash_file(tree[p])]

\* C11 (as claimed): a file that dedupe lists as a duplicate has the bytes of
\* the file retained for its digest; files with different bytes and the same
\* digest are not duplicates of each other.
C11_DuplicateHasRetainedBytes ==
  tool = "v1" =>
    \A i \in 1..Len(duplicates) :
      tree[duplicates[i]].content = tree[Retained(duplicates[i])].content

-----------------------------------------------------------------------------
(* The merge tool, src/cli/v2/merge/script.py, and find_duplicates of the
   Django app, src/fileshaker/deduper/utils.py *)

MaxMergeFiles == 3
MaxDjangoFiles == 3

\* what a call that raised an exception yields
Raised == "raised"

\* basenames of the files under folder1 and folder2
Basenames == { "x", "y" }
MergeContents == { <<1>>, <<1, 1>>, <<1, 3>> }

MergeFile(c, m, r, n) ==
  [content |-> c, mtime |-> m, readable |-> r, exists |-> TRUE, name |-> n]

\* compute_hash and files_are_identical only fail on a file they cannot
\* read, whatever it holds: one such file stands for all of them
MergeFiles ==
  { MergeFile(c, m, TRUE, n) : c \in MergeContents, m \in Mtimes, n \in Basenames }
    \cup { MergeFile(<<1>>, 1, FALSE, "x") }

\* all_files: the walk of folder1, then the walk of folder2
AllFiles(n) == UNION { [1..k -> MergeFiles] : k \in 0..n }

\* compute_hash of the merge tool: the exception of open() or read() escapes
merge_compute_hash(f) ==
  IF ~f.readable THEN Raised ELSE HexDigest(HashLoop(f.content, 0, 0))

\* files_are_identical of the merge tool: "True", "False", or the exception
\* of open() or read()
merge_files_are_identical(f1, f2) ==
  IF ~f1.readable \/ ~f2.readable THEN Raised
  ELSE IF CompareLoop(f1.content, f2.content, 0) THEN "True" ELSE "False"

\* files_seen[file_hash], the empty list when the digest is no key
SeenWith(seen, h) ==
  IF \E j \in 1..Len(seen) : seen[j].key = h
  THEN (CHOOSE e \in Range(seen) : e.key = h).files
  ELSE <<>>

\* the loop over files_seen[file_hash] from position j: "True" at the first
\* identical file, "False" at the end of the list
RECURSIVE DuplicateFound(_, _, _, _)
DuplicateFound(tr, f, existing, j) ==
  IF j > Len(existing) THEN "False"
  ELSE LET same == merge_files_are_identical(f, tr[existing[j]]) IN
       IF same = "False" THEN DuplicateFound(tr, f, existing, j + 1)
       ELSE same

\* get_creation_date falls back to the modification time; date_folder is its day
DateFolder(f) == f.mtime

\* where shutil.copy2(file_path, target_path) puts the file
TargetPath(f) == << DateFolder(f), f.name >>

\* main, lines 92-121: one iteration of the loop over all_files
MergeStep ==
  /\ tool = "merge" /\ pc = "start" /\ fileIdx <= Len(tree)
  /\ LET f == tree[fileIdx]
         file_hash == merge_compute_hash(f)
         duplicate_found ==
           IF file_hash = Raised THEN Raised
           ELSE DuplicateFound(tree, f, SeenWith(files_seen, file_hash), 1) IN
     IF duplicate_found = Raised
     THEN /\ pc' = "crashed"
          /\ UNCHANGED mergevars
     ELSE /\ pc' = pc
          /\ fileIdx' = fileIdx + 1
          /\ files_seen' = IF duplicate_found = "True" THEN files_seen
                           ELSE SetDefaultAppend(files_seen, file_hash, fileIdx)
          /\ IF duplicate_found = "True"
             THEN UNCHANGED << files_copied, total_size, target_folder >>
             ELSE /\ target_folder' = (TargetPath(f) :> f.content) @@ target_folder
                  /\ files_copied' =
                       Append(files_copied, [key |-> fileIdx, value |-> TargetPath(f)])
                  /\ total_size' = total_size + Len(f.content)
  /\ UNCHANGED << tool, tree, cacheFile, duplicates, dryrun >>
  /\ UNCHANGED << v2vars, v1vars, diffvars, histvars, djangovars, imgvars, mediavars, target_dir, hamvars >>

\* main, lines 123-130: file_mapping.json and the summary
MergeWrite ==
  /\ tool = "merge" /\ pc = "start" /\ fileIdx > Len(tree)
  /\ report' = << [file_mapping |-> files_copied,
                   total_files |-> Len(files_copied),
                   total_size |-> total_size] >>
  /\ pc' = "done"
  /\ UNCHANGED << tool, tree, cacheFile, duplicates, dryrun,
                  cache, files_to_check, hashIdx, hash_to_files, resIdx,
                  inWhile, unique_files, computed, target >>
  /\ UNCHANGED << v1vars, diffvars, histvars, extvars >>

\* the variables of the dedupe and diff tools, which do not run
OtherToolsIdle ==
  /\ cacheFile = OtherCache("absent")
  /\ InitRun
  /\ cache = OtherCache("unloaded")
  /\ run = 1 /\ first = NoFirst /\ stored = NoStores /\ lastCall = NoCall
  /\ treeB = <<>> /\ diffOut = <<>>

InitMerge ==
  /\ tool = "merge"
  /\ tree \in AllFiles(MaxMergeFiles)
  /\ OtherToolsIdle /\ InitExt

NextMerge == MergeStep \/ MergeWrite

\* get_file_hash of the Django app: the whole file in one read, and the
\* exception of open() or read() escapes
django_get_file_hash(f) ==
  IF ~f.readable THEN Raised ELSE HexDigest(HashUpdate(0, f.content))

\* find_duplicates of the Django app, lines 15-22: one iteration
DjangoStep ==
  /\ tool = "django" /\ pc = "start" /\ fileIdx <= Len(tree)
  /\ LET file_hash == django_get_file_hash(tree[fileIdx]) IN
     IF file_hash = Raised
     THEN pc' = "crashed" /\ UNCHANGED << fileIdx, files_by_hash >>
     ELSE /\ pc' = pc
          /\ fileIdx' = fileIdx + 1
          /\ files_by_hash' = SetDefaultAppend(files_by_hash, file_hash, fileIdx)
  /\ UNCHANGED << tool, tree, cacheFile, duplicates, dryrun >>
  /\ UNCHANGED << files_seen, files_copied, total_size, target_folder >>
  /\ UNCHANGED << v2vars, v1vars, diffvars, histvars, imgvars, mediavars, target_dir, hamvars >>

\* the dict comprehension of line 24
OnlyDuplicates(d) == SelectSeq(d, LAMBDA e : Len(e.files) > 1)

\* find_duplicates of the Django app, line 24: the value the view renders
DjangoReturn ==
  /\ tool = "django" /\ pc = "start" /\ fileIdx > Len(tree)
  /\ report' = << OnlyDuplicates(files_by_hash) >>
  /\ pc' = "done"
  /\ UNCHANGED << tool, tree, cacheFile, duplicates, dryrun,
                  cache, files_to_check, hashIdx, hash_to_files, resIdx,
                  inWhile, unique_files, computed, target >>
  /\ UNCHANGED << v1vars, diffvars, histvars, extvars >>

InitDjango ==
  /\ tool = "django"
  /\ tree \in Trees(MaxDjangoFiles)
  /\ OtherToolsIdle /\ InitExt

NextDjango == DjangoStep \/ DjangoReturn

\* the tools that hash every walked file in one loop
InitWalk == InitMerge \/ InitDjango
NextWalk == NextMerge \/ NextDjango
SpecWalk == InitWalk /\ [][NextWalk]_vars

-----------------------------------------------------------------------------
(* Properties of the merge tool and of the Django find_duplicates, checked
   under SpecWalk *)

\* C12 (as claimed): a file that cannot be opened or read never aborts the
\* run of the merge tool or of the Django find_duplicates: the run goes on
\* to the remaining files and to its output.
C12_ReadFailureNeverAborts ==
  tool \in {"merge", "django"} => pc # "crashed"

-----------------------------------------------------------------------------
(* The image tool, src/cli/copy_and_filter.py: fingerprints and grouping *)

MaxImages == 3

\* The perceptual hashes of the model's images, as str(ImageHash) gives
\* them: hexadecimal strings, here of one digit (four bits).
Fingerprints == { <<"0">>, <<"1">>, <<"3">>, <<"7">>, <<"8">> }
Thresholds == { 1, 2, 5 }
ImageSizes == { 1, 2 }

HexDigits ==
  << "0", "1", "2", "3", "4", "5", "6", "7", "8", "9", "a", "b", "c", "d", "e", "f" >>

\* the value of one hexadecimal digit
HexValue(ch) == (CHOOSE i \in 1..Len(HexDigits) : HexDigits[i] = ch) - 1

\* int(s, 16)
RECURSIVE IntOfHex(_)
IntOfHex(s) ==
  IF s = <<>> THEN 0
  ELSE 16 * IntOfHex(SubSeq(s, 1, Len(s) - 1)) + HexValue(s[Len(s)])

\* a ^ b on non-negative integers
RECURSIVE Xor(_, _)
Xor(a, b) ==
  IF a = 0 /\ b = 0 THEN 0
  ELSE (((a % 2) + (b % 2)) % 2) + 2 * Xor(a \div 2, b \div 2)

\* bin(n).count('1')
RECURSIVE BitCount(_)
BitCount(n) == IF n = 0 THEN 0 ELSE (n % 2) + BitCount(n \div 2)

\* a difference of values in place of the count of differing bits
NumericDistance(a, b) == IF a < b THEN b - a ELSE a - b

\* hamming_distance of line 133
HammingDistance(a, b) == BitCount(Xor(a, b))

ImageFile(h, size, ok) ==
  [phash |-> h, size |-> size, readable |-> ok, exists |-> TRUE]

\* get_image_hash: the list holding (img_hash, image_path), the empty list
\* for the None it returns when the image cannot be opened or decoded
get_image_hash(path, f) ==
  IF ~f.readable THEN <<>> ELSE << [hash |-> f.phash, path |-> path] >>

\* line 119: the fingerprints as integers
HashesInt(hs) ==
  [ i \in 1..Len(hs) |-> [hash |-> IntOfHex(hs[i].hash), path |-> hs[i].path] ]

\* list.sort(key=...) is stable: e goes after the entries whose key is not
\* greater than its own
RECURSIVE InsertByHash(_, _)
InsertByHash(sorted, e) ==
  IF sorted = <<>> THEN << e >>
  ELSE IF sorted[Len(sorted)].hash <= e.hash THEN Append(sorted, e)
  ELSE Append(InsertByHash(SubSeq(sorted, 1, Len(sorted) - 1), e),
              sorted[Len(sorted)])

\* a sort that leaves the list as it is
KeepInputOrder(hs) == hs

RECURSIVE SortByHash(_)
SortByHash(hs) ==
  IF hs = <<>> THEN <<>>
  ELSE InsertByHash(SortByHash(SubSeq(hs, 1, Len(hs) - 1)), hs[Len(hs)])

\* a grouping that puts every image into one group
AllInOneGroup(hashes_int, threshold, i, groups, current_group) ==
  IF hashes_int = <<>> THEN <<>> ELSE << hashes_int >>

\* lines 127-138: the loop from position i, with the groups closed so far
\* and the current group
RECURSIVE GroupLoop(_, _, _, _, _)
GroupLoop(hashes_int, threshold, i, groups, current_group) ==
  IF i > Len(hashes_int)
  THEN IF current_group # <<>> THEN Append(groups, current_group) ELSE groups
  ELSE LET e == hashes_int[i] IN
       IF current_group = <<>>
       THEN GroupLoop(hashes_int, threshold, i + 1, groups, << e >>)
       ELSE LET prev_hash == current_group[Len(current_group)].hash
                hamming_distance == HammingDistance(e.hash, prev_hash) IN
            IF hamming_distance <= threshold
            THEN GroupLoop(hashes_int, threshold, i + 1, groups,
                           Append(current_group, e))
            ELSE GroupLoop(hashes_int, threshold, i + 1,
                           Append(groups, current_group), << e >>)

group_similar_images(hs, threshold) ==
  GroupLoop(SortByHash(HashesInt(hs)), threshold, 1, <<>>, <<>>)

\* a choice that takes the first file of the list, whatever the sizes
FirstFile(tr, files) == files[1]

\* max(files, key=size): the first file of the list with the greatest size
RECURSIVE MaxBySize(_, _)
MaxBySize(tr, files) ==
  IF Len(files) = 1 THEN files[1]
  ELSE LET best == MaxBySize(tr, SubSeq(files, 1, Len(files) - 1))
           last == files[Len(files)] IN
       IF tr[last].size > tr[best].size THEN last ELSE best

\* lines 167-181 for one group: the data recorded for it
GroupFiles(group) == [ i \in 1..Len(group) |-> group[i].path ]
SimilarFiles(files, largest_file) == SelectSeq(files, LAMBDA f : f # largest_file)
GroupData(tr, group) ==
  LET files == GroupFiles(group)
      largest_file == MaxBySize(tr, files) IN
  [largest_image |-> largest_file,
   similar_images |-> SimilarFiles(files, largest_file)]

\* lines 166-183: the loop over image_groups
RECURSIVE SimilarImagesData(_, _)
SimilarImagesData(tr, groups) ==
  IF groups = <<>> THEN <<>>
  ELSE LET group_data == GroupData(tr, Head(groups)) IN
       (IF group_data.similar_images # <<>> THEN << group_data >> ELSE <<>>)
         \o SimilarImagesData(tr, Tail(groups))

\* the images copied to the target: the largest of every group
RECURSIVE LargestFiles(_, _)
LargestFiles(tr, groups) ==
  IF groups = <<>> THEN {}
  ELSE { GroupData(tr, Head(groups)).largest_image }
         \cup LargestFiles(tr, Tail(groups))

-----------------------------------------------------------------------------
(* The image tool: process_images and main *)

MaxThreads == 2
MaxThreadImages == 2
\* num_threads when the option is not given
DefaultThreads == 8

Workers == 1..num_threads

\* the None that main puts on the queue to stop a worker (image paths are
\* the positive numbers)
Sentinel == 0

\* lines 98-101: the worker threads are started
StartThreads ==
  /\ tool = "images" /\ pc = "start"
  /\ worker_pc' = [ w \in Workers |-> "get" ]
  /\ worker_item' = [ w \in Workers |-> Sentinel ]
  /\ pc' = "put"
  /\ UNCHANGED << queue, unfinished_tasks, putIdx, hashes >>
  /\ UNCHANGED << hash_threshold, num_threads, image_groups, similar_images_data >>
  /\ UNCHANGED << tool, tree, cacheFile, duplicates, dryrun >>
  /\ UNCHANGED << v2vars, v1vars, diffvars, histvars, mergevars, djangovars, mediavars, target_dir, hamvars >>

\* lines 103-104: q.put(image_path), which counts the item as unfinished
PutImage ==
  /\ tool = "images" /\ pc = "put" /\ putIdx <= Len(tree)
  /\ queue' = Append(queue, putIdx)
  /\ unfinished_tasks' = unfinished_tasks + 1
  /\ putIdx' = putIdx + 1
  /\ UNCHANGED << pc, worker_pc, worker_item, hashes >>
  /\ UNCHANGED << hash_threshold, num_threads, image_groups, similar_images_data >>
  /\ UNCHANGED << tool, tree, cacheFile, duplicates, dryrun >>
  /\ UNCHANGED << v2vars, v1vars, diffvars, histvars, mergevars, djangovars, mediavars, target_dir, hamvars >>

\* a join that returns while items are unfinished
JoinWithoutWaiting ==
  /\ tool = "images" /\ pc = "put" /\ putIdx > Len(tree)
  /\ pc' = "stop"
  /\ putIdx' = 1
  /\ UNCHANGED << queue, unfinished_tasks, worker_pc, worker_item, hashes >>
  /\ UNCHANGED << hash_threshold, num_threads, image_groups, similar_images_data >>
  /\ UNCHANGED << tool, tree, cacheFile, duplicates, dryrun >>
  /\ UNCHANGED << v2vars, v1vars, diffvars, histvars, mergevars, djangovars, mediavars, target_dir, hamvars >>

\* line 107: q.join() returns when no item is unfinished
Join ==
  /\ tool = "images" /\ pc = "put" /\ putIdx > Len(tree)
  /\ unfinished_tasks = 0
  /\ pc' = "stop"
  /\ putIdx' = 1
  /\ UNCHANGED << queue, unfinished_tasks, worker_pc, worker_item, hashes >>
  /\ UNCHANGED << hash_threshold, num_threads, image_groups, similar_images_data >>
  /\ UNCHANGED << tool, tree, cacheFile, duplicates, dryrun >>
  /\ UNCHANGED << v2vars, v1vars, diffvars, histvars, mergevars, djangovars, mediavars, target_dir, hamvars >>

\* lines 110-111: one None per worker
PutNone ==
  /\ tool = "images" /\ pc = "stop" /\ putIdx <= num_threads
  /\ queue' = Append(queue, Sentinel)
  /\ unfinished_tasks' = unfinished_tasks + 1
  /\ putIdx' = putIdx + 1
  /\ UNCHANGED << pc, worker_pc, worker_item, hashes >>
  /\ UNCHANGED << hash_threshold, num_threads, image_groups, similar_images_data >>
  /\ UNCHANGED << tool, tree, cacheFile, duplicates, dryrun >>
  /\ UNCHANGED << v2vars, v1vars, diffvars, histvars, mergevars, djangovars, mediavars, target_dir, hamvars >>

\* lines 112-115: every thread is joined and hashes is returned
JoinThreads ==
  /\ tool = "images" /\ pc = "stop" /\ putIdx > num_threads
  /\ \A w \in Workers : worker_pc[w] = "exited"
  /\ pc' = "hashed"
  /\ UNCHANGED << threadvars, hashes >>
  /\ UNCHANGED << hash_threshold, num_threads, image_groups, similar_images_data >>
  /\ UNCHANGED << tool, tree, cacheFile, duplicates, dryrun >>
  /\ UNCHANGED << v2vars, v1vars, diffvars, histvars, mergevars, djangovars, mediavars, target_dir, hamvars >>

\* worker, lines 81-83: q.get() blocks while the queue is empty
WorkerGet(w) ==
  /\ tool = "images" /\ w \in DOMAIN worker_pc
  /\ worker_pc[w] = "get" /\ queue # <<>>
  /\ queue' = Tail(queue)
  /\ worker_item' = [worker_item EXCEPT ![w] = Head(queue)]
  /\ worker_pc' = [worker_pc EXCEPT ![w] =
                     IF Head(queue) = Sentinel THEN "exited" ELSE "hash"]
  /\ UNCHANGED << pc, unfinished_tasks, putIdx, hashes >>
  /\ UNCHANGED << hash_threshold, num_threads, image_groups, similar_images_data >>
  /\ UNCHANGED << tool, tree, cacheFile, duplicates, dryrun >>
  /\ UNCHANGED << v2vars, v1vars, diffvars, histvars, mergevars, djangovars, mediavars, target_dir, hamvars >>

\* worker, lines 84-86
WorkerHash(w) ==
  /\ tool = "images" /\ w \in DOMAIN worker_pc
  /\ worker_pc[w] = "hash"
  /\ LET result == get_image_hash(worker_item[w], tree[worker_item[w]]) IN
     hashes' = IF result # <<>> THEN Append(hashes, result[1]) ELSE hashes
  /\ worker_pc' = [worker_pc EXCEPT ![w] = "task_done"]
  /\ UNCHANGED << pc, queue, unfinished_tasks, putIdx, worker_item >>
  /\ UNCHANGED << hash_threshold, num_threads, image_groups, similar_images_data >>
  /\ UNCHANGED << tool, tree, cacheFile, duplicates, dryrun >>
  /\ UNCHANGED << v2vars, v1vars, diffvars, histvars, mergevars, djangovars, mediavars, target_dir, hamvars >>

\* a worker that goes back to q.get() without q.task_done()
WorkerSkipsTaskDone(w) ==
  /\ tool = "images" /\ w \in DOMAIN worker_pc
  /\ worker_pc[w] = "task_done"
  /\ worker_pc' = [worker_pc EXCEPT ![w] = "get"]
  /\ UNCHANGED << pc, queue, unfinished_tasks, putIdx, worker_item, hashes >>
  /\ UNCHANGED << hash_threshold, num_threads, image_groups, similar_images_data >>
  /\ UNCHANGED << tool, tree, cacheFile, duplicates, dryrun >>
  /\ UNCHANGED << v2vars, v1vars, diffvars, histvars, mergevars, djangovars, mediavars, target_dir, hamvars >>

\* worker, lines 87-88: q.task_done()
WorkerTaskDone(w) ==
  /\ tool = "images" /\ w \in DOMAIN worker_pc
  /\ worker_pc[w] = "task_done"
  /\ unfinished_tasks' = unfinished_tasks - 1
  /\ worker_pc' = [worker_pc EXCEPT ![w] = "get"]
  /\ UNCHANGED << pc, queue, putIdx, worker_item, hashes >>
  /\ UNCHANGED << hash_threshold, num_threads, image_groups, similar_images_data >>
  /\ UNCHANGED << tool, tree, cacheFile, duplicates, dryrun >>
  /\ UNCHANGED << v2vars, v1vars, diffvars, histvars, mergevars, djangovars, mediavars, target_dir, hamvars >>

\* main, line 213
GroupSimilarImages ==
  /\ tool = "images" /\ pc = "hashed"
  /\ image_groups' = group_similar_images(hashes, hash_threshold)
  /\ pc' = "grouped"
  /\ UNCHANGED << threadvars, hashes, hash_threshold, num_threads,
                  similar_images_data >>
  /\ UNCHANGED << tool, tree, cacheFile, duplicates, dryrun >>
  /\ UNCHANGED << v2vars, v1vars, diffvars, histvars, mergevars, djangovars, mediavars, target_dir, hamvars >>

\* main, line 218: copy_files, lines 162-189
CopyFiles ==
  /\ tool = "images" /\ pc = "grouped"
  /\ similar_images_data' = SimilarImagesData(tree, image_groups)
  /\ target' = LargestFiles(tree, image_groups)
  /\ pc' = "done"
  /\ UNCHANGED << threadvars, hashes, hash_threshold, num_threads, image_groups >>
  /\ UNCHANGED << tool, tree, cacheFile, duplicates, dryrun,
                  cache, files_to_check, hashIdx, hash_to_files, resIdx,
                  inWhile, unique_files, computed, report >>
  /\ UNCHANGED << v1vars, diffvars, histvars, mergevars, djangovars, mediavars, target_dir, hamvars >>

\* the paths whose hashing succeeds
HashedPaths(tr) == { p \in 1..Len(tr) : tr[p].readable }

\* the lists process_images can return: one (hash, path) per image whose
\* hashing succeeded, in the order in which the workers appended them
CompletionOrders(tr) ==
  { s \in [1..Cardinality(HashedPaths(tr)) -> HashedPaths(tr)] :
      \A i, j \in DOMAIN s : s[i] = s[j] => i = j }

HashesInOrder(tr, order) ==
  [ i \in DOMAIN order |-> get_image_hash(order[i], tr[order[i]])[1] ]

\* process_images as one step, for num_threads workers that are at least as
\* many as the images: every worker takes at most one image, so the images
\* complete in any order; on return the queue is empty, every worker has
\* taken its None and has exited
ProcessImages ==
  /\ tool = "images" /\ pc = "start"
  /\ num_threads >= Len(tree) /\ num_threads = DefaultThreads
  /\ \E order \in CompletionOrders(tree) : hashes' = HashesInOrder(tree, order)
  /\ worker_pc' = [ w \in Workers |-> "exited" ]
  /\ worker_item' = [ w \in Workers |-> Sentinel ]
  /\ unfinished_tasks' = num_threads
  /\ putIdx' = num_threads + 1
  /\ pc' = "hashed"
  /\ UNCHANGED << queue, hash_threshold, num_threads, image_groups,
                  similar_images_data >>
  /\ UNCHANGED << tool, tree, cacheFile, duplicates, dryrun >>
  /\ UNCHANGED << v2vars, v1vars, diffvars, histvars, mergevars, djangovars, mediavars, target_dir, hamvars >>

ImageFiles ==
  { ImageFile(h, s, TRUE) : h \in Fingerprints, s \in ImageSizes }
    \cup { ImageFile(<<"0">>, 1, FALSE) }

\* the images of the runs in which the threads are followed step by step
ThreadImageFiles ==
  { ImageFile(<<"0">>, 1, TRUE), ImageFile(<<"7">>, 1, TRUE),
    ImageFile(<<"0">>, 1, FALSE) }

ImageTrees(files, n) == UNION { [1..k -> files] : k \in 0..n }

\* main before process_images is called
InitImagesRun ==
  /\ tool = "images"
  /\ OtherToolsIdle /\ MergeIdle /\ DjangoIdle /\ MediaIdle /\ HammingIdle
  /\ queue = <<>> /\ unfinished_tasks = 0 /\ putIdx = 1
  /\ worker_pc = <<>> /\ worker_item = <<>>
  /\ hashes = <<>> /\ image_groups = <<>> /\ similar_images_data = <<>>

InitImages ==
  /\ InitImagesRun
  /\ tree \in ImageTrees(ThreadImageFiles, MaxThreadImages)
  /\ hash_threshold = 2
  /\ num_threads \in 1..MaxThreads

NextImages ==
  \/ StartThreads \/ PutImage \/ Join \/ PutNone \/ JoinThreads
  \/ (\E w \in Workers : WorkerGet(w))
  \/ (\E w \in Workers : WorkerHash(w))
  \/ (\E w \in Workers : WorkerTaskDone(w))
  \/ GroupSimilarImages \/ CopyFiles

SpecImages == InitImages /\ [][NextImages]_vars

InitGroup ==
  /\ InitImagesRun
  /\ tree \in ImageTrees(ImageFiles, MaxImages)
  /\ hash_threshold \in Thresholds
  /\ num_threads = DefaultThreads

NextGroup == ProcessImages \/ GroupSimilarImages \/ CopyFiles

SpecGroup == InitGroup /\ [][NextGroup]_vars

-----------------------------------------------------------------------------
(* Properties of group_similar_images and copy_files, checked under SpecGroup *)

\* group_similar_images has returned
Grouped == tool = "images" /\ pc \in {"grouped", "done"}

IntHash(p) == IntOfHex(tree[p].phash)

\* the bit positions of a one-digit fingerprint
BitPositions == 0..3
Bit(n, k) == (n \div (2 ^ k)) % 2

\* the number of bit positions in which the fingerprints of a and b differ
BitsDiffering(a, b) ==
  Cardinality({ k \in BitPositions : Bit(IntHash(a), k) # Bit(IntHash(b), k) })

ImageGroupPaths(g) == { image_groups[g][i].path : i \in 1..Len(image_groups[g]) }
InSameGroup(a, b) ==
  \E g \in 1..Len(image_groups) : {a, b} \subseteq ImageGroupPaths(g)

\* a and b are neighbours in the order of the fingerprint values: no image
\* has a value strictly between theirs
AdjacentByValue(a, b) ==
  /\ a # b
  /\ ~\E c \in HashedPaths(tree) :
        \/ IntHash(a) < IntHash(c) /\ IntHash(c) < IntHash(b)
        \/ IntHash(b) < IntHash(c) /\ IntHash(c) < IntHash(a)

\* C13: two images adjacent in the order of the fingerprint values are in
\* one group exactly when their fingerprints differ in at most hash_threshold
\* bits; two images at distance 3 are one group at threshold 5 and two
\* groups of one at threshold 2.
C13_AdjacentJoinIffWithinThreshold ==
  Grouped =>
    /\ \A a, b \in HashedPaths(tree) :
         AdjacentByValue(a, b) =>
           (InSameGroup(a, b) <=> BitsDiffering(a, b) <= hash_threshold)
    /\ (Len(hashes) = 2 /\ BitsDiffering(hashes[1].path, hashes[2].path) = 3) =>
         /\ hash_threshold = 5 =>
              Len(image_groups) = 1 /\ Len(image_groups[1]) = 2
         /\ hash_threshold = 2 =>
              /\ Len(image_groups) = 2
              /\ Len(image_groups[1]) = 1 /\ Len(image_groups[2]) = 1

\* three images: neighbours at a distance equal to the threshold are joined,
\* neighbours at a greater distance are split
C13_Witness ==
  /\ Grouped /\ Len(hashes) = 3
  /\ \E a, b, c \in HashedPaths(tree) :
       /\ AdjacentByValue(a, b) /\ AdjacentByValue(b, c) /\ a # c
       /\ BitsDiffering(a, b) = hash_threshold /\ InSameGroup(a, b)
       /\ BitsDiffering(b, c) > hash_threshold /\ ~InSameGroup(b, c)

\* the members of S that chains of steps of at most hash_threshold differing
\* bits, through members of S, reach from the set R
RECURSIVE ChainReach(_, _)
ChainReach(S, R) ==
  LET more == { x \in S \ R : \E r \in R : BitsDiffering(x, r) <= hash_threshold } IN
  IF more = {} THEN R ELSE ChainReach(S, R \cup more)

\* C14: any two images of one group are linked by a chain of members of that
\* group in which consecutive members differ in at most hash_threshold bits.
C14_GroupIsChained ==
  Grouped =>
    \A g \in 1..Len(image_groups) :
      \A a \in ImageGroupPaths(g) :
        ChainReach(ImageGroupPaths(g), {a}) = ImageGroupPaths(g)

\* a group of three in which two members are farther apart than the
\* threshold and are linked through the third
C14_Witness ==
  /\ Grouped
  /\ \E g \in 1..Len(image_groups) :
       /\ Len(image_groups[g]) = 3
       /\ \E a, b \in ImageGroupPaths(g) : BitsDiffering(a, b) > hash_threshold

\* copy_files has returned
Copied == tool = "images" /\ pc = "done"

\* C15: the largest_image of every group is at least as large as every
\* member of the group, is the member that is copied, and is not among the
\* similar_images recorded for the group.
C15_LargestIsLargest ==
  Copied =>
    /\ \A g \in 1..Len(image_groups) :
         \E m \in ImageGroupPaths(g) :
           /\ target \cap ImageGroupPaths(g) = {m}
           /\ \A x \in ImageGroupPaths(g) : tree[m].size >= tree[x].size
    /\ \A d \in 1..Len(similar_images_data) :
         LET data == similar_images_data[d] IN
         /\ data.largest_image \in target
         /\ \A i \in 1..Len(data.similar_images) :
              /\ data.similar_images[i] # data.largest_image
              /\ tree[data.largest_image].size >= tree[data.similar_images[i]].size
         /\ \E g \in 1..Len(image_groups) :
              ImageGroupPaths(g) =
                {data.largest_image} \cup Range(data.similar_images)

\* a group whose largest image is not its first member
C15_Witness ==
  /\ Copied /\ Len(similar_images_data) = 1
  /\ \E g \in 1..Len(image_groups) :
       /\ Len(image_groups[g]) >= 2
       /\ image_groups[g][1].path # similar_images_data[1].largest_image
       /\ image_groups[g][1].path \in Range(similar_images_data[1].similar_images)
       /\ tree[image_groups[g][1].path].size
            < tree[similar_images_data[1].largest_image].size

\* C16 (as claimed): the largest images chosen for the groups are the same
\* for every order in which the workers could have appended the hashes.
C16_CanonicalIndependentOfOrder ==
  Grouped =>
    \A order \in CompletionOrders(tree) :
      LargestFiles(tree, group_similar_images(HashesInOrder(tree, order),
                                              hash_threshold))
        = LargestFiles(tree, image_groups)

-----------------------------------------------------------------------------
(* Properties of process_images, checked under SpecImages *)

HashedOnce ==
  /\ { hashes[i].path : i \in 1..Len(hashes) } = HashedPaths(tree)
  /\ Len(hashes) = Cardinality(HashedPaths(tree))
  /\ \A i \in 1..Len(hashes) : hashes[i].hash = tree[hashes[i].path].phash

\* C17: once q.join() has returned no worker is hashing and hashes holds one
\* fingerprint for every image whose hashing succeeded; when process_images
\* has returned, and so whenever group_similar_images runs, every worker has
\* exited.
C17_ClusteringAfterAllHashed ==
  tool = "images" =>
    /\ pc \in {"stop", "hashed", "grouped", "done"} =>
         /\ HashedOnce
         /\ \A w \in Workers : worker_pc[w] \in {"get", "exited"}
    /\ pc \in {"hashed", "grouped", "done"} =>
         /\ queue = <<>>
         /\ \A w \in Workers : worker_pc[w] = "exited"
    /\ pc \in {"start", "put", "stop", "hashed"} => image_groups = <<>>

\* two workers hashed two images and the second image was appended before
\* the first
C17_Witness ==
  /\ tool = "images" /\ pc = "grouped" /\ num_threads = 2
  /\ Len(tree) = 2 /\ Len(hashes) = 2
  /\ hashes[1].path = 2 /\ hashes[2].path = 1

-----------------------------------------------------------------------------
(* The media copier, src/cli/copy_media_cli4.py *)

MaxMediaFiles == 3
MaxMediaThreads == 2

MediaContents == { <<1>>, <<2>> }

\* a media file: its bytes, its creation month, its basename
MediaFile(c, m, r, n) ==
  [content |-> c, mtime |-> m, readable |-> r, exists |-> TRUE, name |-> n]

\* hash_file fails on a file it cannot read, whatever it holds
MediaFiles ==
  { MediaFile(c, 1, TRUE, n) : c \in MediaContents, n \in Basenames }
    \cup { MediaFile(<<1>>, 1, FALSE, "x") }

\* file_paths: the eligible files in the order of the walk
FilePaths(n) == UNION { [1..k -> MediaFiles] : k \in 0..n }

\* hash_file of the media copier: the exception of open() or read() escapes
media_hash_file(f) ==
  IF ~f.readable THEN Raised ELSE HexDigest(HashLoop(f.content, 0, 0))

get_creation_month(f) == f.mtime

\* month_folder / file_path.name
PlainTarget(f) == << get_creation_month(f), f.name, "" >>

\* month_folder / f"{stem}_{file_hash[:8]}{suffix}"; the digests of the
\* model are shorter than eight characters
RenamedTarget(f, file_hash) == << get_creation_month(f), f.name, file_hash >>

\* the process_file calls that a pool thread is running
MediaRunning == { f \in DOMAIN media_pc : media_pc[f] \in {"check", "exists", "copy", "store"} }
MediaQueued == { f \in DOMAIN media_pc : media_pc[f] = "queued" }
MediaReturned == { "true", "false", "raised" }

\* copy_media, lines 140-164: every file is submitted to the pool
MediaSubmit ==
  /\ tool = "media" /\ pc = "start"
  /\ media_pc' = [ f \in 1..Len(tree) |-> "queued" ]
  /\ media_hash' = [ f \in 1..Len(tree) |-> None ]
  /\ media_target' = [ f \in 1..Len(tree) |-> <<>> ]
  /\ pc' = "running"
  /\ UNCHANGED << max_threads, copied_files_count >>
  /\ UNCHANGED << tool, tree, cacheFile, duplicates, dryrun >>
  /\ UNCHANGED << v2vars, v1vars, diffvars, histvars, mergevars, djangovars, imgvars, target_dir, hamvars >>

\* process_file, line 101: a free pool thread takes the oldest queued call
\* and hashes the file
MediaHash(f) ==
  /\ tool = "media" /\ pc = "running"
  /\ f \in MediaQueued /\ \A g \in MediaQueued : f <= g
  /\ Cardinality(MediaRunning) < max_threads
  /\ LET file_hash == media_hash_file(tree[f]) IN
     IF file_hash = Raised
     THEN /\ media_pc' = [media_pc EXCEPT ![f] = "raised"]
          /\ UNCHANGED media_hash
     ELSE /\ media_pc' = [media_pc EXCEPT ![f] = "check"]
          /\ media_hash' = [media_hash EXCEPT ![f] = file_hash]
  /\ UNCHANGED << max_threads, media_target, copied_files_count >>
  /\ UNCHANGED << tool, tree, cacheFile, pc, duplicates, dryrun >>
  /\ UNCHANGED << v2vars, v1vars, diffvars, histvars, mergevars, djangovars, imgvars, target_dir, hamvars >>

\* process_file, line 102 (and 117-119)
MediaCheck(f) ==
  /\ tool = "media" /\ f \in DOMAIN media_pc /\ media_pc[f] = "check"
  /\ media_pc' = [media_pc EXCEPT ![f] =
                    IF media_hash[f] \notin DOMAIN seen_hashes
                    THEN "exists" ELSE "false"]
  /\ UNCHANGED << max_threads, media_hash, media_target, copied_files_count >>
  /\ UNCHANGED << tool, tree, cacheFile, pc, duplicates, dryrun >>
  /\ UNCHANGED << v2vars, v1vars, diffvars, histvars, mergevars, djangovars, imgvars, target_dir, hamvars >>

\* process_file, lines 103-112
MediaExists(f) ==
  /\ tool = "media" /\ f \in DOMAIN media_pc /\ media_pc[f] = "exists"
  /\ media_target' = [media_target EXCEPT ![f] =
                        IF PlainTarget(tree[f]) \in DOMAIN target_folder
                        THEN RenamedTarget(tree[f], media_hash[f])
                        ELSE PlainTarget(tree[f])]
  /\ media_pc' = [media_pc EXCEPT ![f] = "copy"]
  /\ UNCHANGED << max_threads, media_hash, copied_files_count >>
  /\ UNCHANGED << tool, tree, cacheFile, pc, duplicates, dryrun >>
  /\ UNCHANGED << v2vars, v1vars, diffvars, histvars, mergevars, djangovars, imgvars, target_dir, hamvars >>

\* process_file, line 114: shutil.copy2 writes the target path, replacing
\* what it held
MediaCopy(f) ==
  /\ tool = "media" /\ f \in DOMAIN media_pc /\ media_pc[f] = "copy"
  /\ target_folder' = (media_target[f] :> tree[f].content) @@ target_folder
  /\ media_pc' = [media_pc EXCEPT ![f] = "store"]
  /\ UNCHANGED << max_threads, media_hash, media_target, copied_files_count >>
  /\ UNCHANGED << fileIdx, files_seen, files_copied, total_size >>
  /\ UNCHANGED << tool, tree, cacheFile, pc, duplicates, dryrun >>
  /\ UNCHANGED << v2vars, v1vars, diffvars, histvars, djangovars, imgvars, target_dir, hamvars >>

\* process_file, lines 115-116
MediaStore(f) ==
  /\ tool = "media" /\ f \in DOMAIN media_pc /\ media_pc[f] = "store"
  /\ seen_hashes' = (media_hash[f] :> media_target[f]) @@ seen_hashes
  /\ media_pc' = [media_pc EXCEPT ![f] = "true"]
  /\ UNCHANGED << max_threads, media_hash, media_target, copied_files_count >>
  /\ UNCHANGED << tool, tree, cacheFile, pc, duplicates, dryrun, pending >>
  /\ UNCHANGED << v2vars, diffvars, histvars, mergevars, djangovars, imgvars, target_dir, hamvars >>

\* copy_media, lines 166-171: the results are counted; future.result()
\* raises what process_file raised
MediaFinish ==
  /\ tool = "media" /\ pc = "running"
  /\ \A f \in DOMAIN media_pc : media_pc[f] \in MediaReturned
  /\ IF \E f \in DOMAIN media_pc : media_pc[f] = "raised"
     THEN pc' = "crashed" /\ UNCHANGED copied_files_count
     ELSE /\ pc' = "done"
          /\ copied_files_count' =
               Cardinality({ f \in DOMAIN media_pc : media_pc[f] = "true" })
  /\ UNCHANGED << max_threads, media_pc, media_hash, media_target >>
  /\ UNCHANGED << tool, tree, cacheFile, duplicates, dryrun >>
  /\ UNCHANGED << v2vars, v1vars, diffvars, histvars, mergevars, djangovars, imgvars, target_dir, hamvars >>

InitMedia ==
  /\ tool = "media"
  /\ tree \in FilePaths(MaxMediaFiles)
  /\ max_threads \in 1..MaxMediaThreads
  /\ OtherToolsIdle /\ MergeIdle /\ DjangoIdle /\ ImagesIdle /\ HammingIdle
  /\ media_pc = <<>> /\ media_hash = <<>> /\ media_target = <<>>
  /\ copied_files_count = 0

NextMedia ==
  \/ MediaSubmit
  \/ (\E f \in 1..Len(tree) : MediaHash(f))
  \/ (\E f \in 1..Len(tree) : MediaCheck(f))
  \/ (\E f \in 1..Len(tree) : MediaExists(f))
  \/ (\E f \in 1..Len(tree) : MediaCopy(f))
  \/ (\E f \in 1..Len(tree) : MediaStore(f))
  \/ MediaFinish

SpecMedia == InitMedia /\ [][NextMedia]_vars

-----------------------------------------------------------------------------
(* Properties of copy_media, checked under SpecMedia *)

MediaHashes == { media_hash[f] : f \in DOMAIN media_hash }
CopiedWithHash(h) ==
  { f \in DOMAIN media_pc : media_hash[f] = h /\ media_pc[f] \in {"store", "true"} }

\* C18 (as claimed): whatever the interleaving of the pool threads, at most
\* one file is copied for each content hash, and the count that copy_media
\* reports is the number of distinct content hashes.
C18_OneCopyPerHash ==
  tool = "media" =>
    /\ \A h \in MediaHashes : Cardinality(CopiedWithHash(h)) <= 1
    /\ pc = "done" => copied_files_count = Cardinality(MediaHashes)

-----------------------------------------------------------------------------
(* Properties of dedupe (v1) after its removals, checked under SpecV1 *)

ContentDigest(p) == HexDigest(HashLoop(tree[p].content, 0, 0))
Hashed == { p \in Paths : tree[p].readable }
Remaining == { p \in Paths : tree[p].exists }

\* C19: after dedupe without dry_run, whatever the order in which the
\* futures completed, one file remains for every digest of the files that
\* were hashed, the number of files removed is the number hashed minus the
\* number of their digests, and no file that could not be hashed is removed.
C19_OneFileLeftPerHash ==
  (tool = "v1" /\ pc = "done" /\ dryrun = "false") =>
    /\ \A p \in Hashed :
         Cardinality({ r \in Hashed \cap Remaining :
                         ContentDigest(r) = ContentDigest(p) }) = 1
    /\ Cardinality(Paths \ Remaining)
         = Cardinality(Hashed) - Cardinality({ ContentDigest(p) : p \in Hashed })
    /\ \A p \in Paths \ Hashed : p \in Remaining

\* the first file of the walk was removed, a later file with its digest was
\* kept, and a file that could not be read was left alone
C19_Witness ==
  /\ tool = "v1" /\ pc = "done" /\ dryrun = "false"
  /\ 1 \in Hashed \ Remaining
  /\ \E p \in (Hashed \cap Remaining) \ {1} : ContentDigest(p) = ContentDigest(1)
  /\ Paths \ Hashed # {}


-----------------------------------------------------------------------------
(* Dry runs of the dedupe tools, checked under Spec *)

\* every file of the scanned tree is still there
NothingRemoved == \A i \in 1..Len(tree) : tree[i].exists

\* C20: in dry-run mode neither dedupe tool changes a scanned or target tree:
\* a step that leaves the dry-run option set removes no file of the tree,
\* copies no file and does not create the target directory; after a dry run
\* no file of the tree is missing, the target holds nothing and does not
\* exist, and the v2 tool has still written its report and its cache file.
C20_DryRunChangesNoTree ==
  /\ [][ dryrun' = "true" =>
           tree' = tree /\ target' = target /\ target_dir' = target_dir ]_vars
  /\ [](dryrun = "true" =>
          /\ NothingRemoved /\ target = {} /\ target_dir = "absent"
          /\ tool = "v2" => (report # <<>> /\ cacheFile = cache
                               /\ cacheFile.kind # "absent"))

\* a v2 dry run has ended with a duplicate group and a unique file it would
\* have copied, all of them readable
C20_Witness ==
  /\ tool = "v2" /\ pc = "done" /\ dryrun = "true"
  /\ duplicates # <<>> /\ unique_files # <<>>
  /\ \A i \in 1..Len(tree) : tree[i].readable
  /\ report # <<>> /\ target = {} /\ target_dir = "absent"

\* a v1 dry run has ended with a duplicate listed and still in the tree
C20_WitnessV1 ==
  /\ tool = "v1" /\ pc = "done" /\ dryrun = "true"
  /\ duplicates # <<>> /\ NothingRemoved


-----------------------------------------------------------------------------
(* The files find_duplicates hashes, checked under Spec *)

\* the size of file p is the size of another scanned file
SizeShared(p) ==
  \E q \in 1..Len(tree) :
    q # p /\ tree[q].exists /\ Len(tree[q].content) = Len(tree[p].content)

\* the keys the run has added to the cache that the cache file did not hold
AddedKeys ==
  IF cache.kind = "dict" THEN DOMAIN cache.data \ DOMAIN cacheFile.data ELSE {}

\* C21: find_duplicates passes to get_file_hash only files of size buckets
\* with at least two members: a file whose size no other scanned file has is
\* never among the files to check, has no content hash computed and gets no
\* cache entry.
C21_UniqueSizeNeverHashed ==
  (tool = "v2" /\ pc \in {"hashing", "resolving", "found"}) =>
    \A p \in 1..Len(tree) :
      (tree[p].exists /\ ~SizeShared(p)) =>
        /\ p \notin Range(files_to_check)
        /\ p \notin computed
        /\ cache_key(p, tree[p]) \notin AddedKeys
        /\ \A j \in 1..Len(hash_to_files) : p \notin Range(hash_to_files[j].files)

\* the hashing loop has ended with hashes computed and stored, while a
\* readable file of a size of its own has no entry in the cache
C21_Witness ==
  /\ tool = "v2" /\ pc = "found"
  /\ computed # {} /\ AddedKeys # {}
  /\ \E p \in 1..Len(tree) :
       /\ tree[p].readable /\ ~SizeShared(p)
       /\ cache_key(p, tree[p]) \notin DOMAIN cache.data


-----------------------------------------------------------------------------
(* Completeness of find_duplicates, checked under Spec *)

\* the cache file is absent, or a JSON object in which every entry under the
\* key of a current file holds the digest of that file's bytes
CacheFileEmptyOrCorrect ==
  \/ cacheFile.kind = "absent"
  \/ /\ cacheFile.kind = "dict"
     /\ \A p \in Paths :
          cache_key(p, tree[p]) \in DOMAIN cacheFile.data =>
            cacheFile.data[cache_key(p, tree[p])] = ContentDigest(p)

\* p and q are in one duplicate group
SameDuplicateGroup(p, q) ==
  \E g \in 1..Len(duplicates) : {p, q} \subseteq GroupPaths(duplicates[g])

\* C22: with an empty cache, or a cache whose entries are correct for the
\* current files, any two readable scanned files with the same bytes are in
\* the same duplicate group when find_duplicates returns.
C22_IdenticalFilesGrouped ==
  (Returned /\ CacheFileEmptyOrCorrect) =>
    \A p, q \in Paths :
      (p # q /\ tree[p].readable /\ tree[q].readable
         /\ tree[p].content = tree[q].content) => SameDuplicateGroup(p, q)

\* two pairs of copies with one size and one digest were told apart by the
\* byte comparison, under a cache that held a correct entry: two groups
C22_Witness ==
  /\ Returned /\ pc = "found" /\ Len(tree) = 4
  /\ cacheFile.kind = "dict" /\ DOMAIN cacheFile.data # {}
  /\ CacheFileEmptyOrCorrect
  /\ \A p \in Paths : tree[p].readable /\ ContentDigest(p) = ContentDigest(1)
  /\ Len(duplicates) = 2
  /\ Len(duplicates[1]) = 2 /\ Len(duplicates[2]) = 2


\* C23 (as claimed): any two images whose fingerprints differ in at most
\* hash_threshold bits are in one group, whatever the other fingerprints are.
C23_CloseImagesShareGroup ==
  Grouped =>
    \A a, b \in HashedPaths(tree) :
      BitsDiffering(a, b) <= hash_threshold => InSameGroup(a, b)


-----------------------------------------------------------------------------
(* calculate_hamming_distance: src/cli/copy_and_filter_images.py and
   src/cli/copy_and_filter_images2.py *)

MaxHashLen == 2

\* the hexadecimal digits the fingerprints are written with: digits that
\* differ from one another in 1, 2, 3 and 4 bits
FingerprintDigits == { "0", "1", "3", "7", "f" }

\* the hexadecimal strings PHash.encode_image returns, of up to n digits
HashStrings(n) == UNION { [1..k -> FingerprintDigits] : k \in 0..n }

\* sum(c1 != c2 for c1, c2 in zip(hash1, hash2))
calculate_hamming_distance(h1, h2) ==
  SumSeq([ i \in 1..Min(Len(h1), Len(h2)) |-> IF h1[i] # h2[i] THEN 1 ELSE 0 ])

CalculateHammingDistance ==
  /\ tool = "hamming" /\ pc = "start"
  /\ returned' = << calculate_hamming_distance(hash1, hash2) >>
  /\ pc' = "done"
  /\ UNCHANGED << tool, tree, cacheFile, duplicates, dryrun, hash1, hash2 >>
  /\ UNCHANGED << v2vars, v1vars, diffvars, histvars, toolvars, target_dir >>

InitHamming ==
  /\ tool = "hamming"
  /\ tree = <<>>
  /\ OtherToolsIdle /\ MergeIdle /\ DjangoIdle /\ ImagesIdle /\ MediaIdle
  /\ hash1 \in HashStrings(MaxHashLen)
  /\ hash2 \in HashStrings(MaxHashLen)
  /\ returned = <<>>

NextHamming == CalculateHammingDistance

SpecHamming == InitHamming /\ [][NextHamming]_vars

\* C24 (as claimed): on two hexadecimal fingerprints of equal length the
\* function returns the number of bit positions in which they differ, the
\* bit count of the exclusive or of their values that group_similar_images
\* uses.
C24_CountsDifferingBits ==
  (tool = "hamming" /\ pc = "done" /\ Len(hash1) = Len(hash2)) =>
    returned[1] = HammingDistance(IntOfHex(hash1), IntOfHex(hash2))


-----------------------------------------------------------------------------
(* Termination of the collision-resolution loop of find_duplicates *)

MaxResolveFiles == 3

InitResolve ==
  /\ tool = "v2"
  /\ tree \in Trees(MaxResolveFiles)
  /\ cacheFile \in CacheFiles(tree)
  /\ InitRun /\ InitExt
  /\ cache = OtherCache("unloaded")
  /\ run = 1 /\ first = NoFirst /\ stored = NoStores /\ lastCall = NoCall
  /\ treeB = <<>> /\ diffOut = <<>>

\* find_duplicates runs in one thread, which goes on with the next iteration
\* of its loop whenever there is one
SpecResolve == InitResolve /\ [][V2Next]_vars /\ WF_vars(ResolveStep)

\* the files that got a hash: the members of the lists of hash_to_files
\* before the loop over them
Candidates ==
  IF cache.kind = "dict"
  THEN { p \in Range(files_to_check) : cache_key(p, tree[p]) \in DOMAIN cache.data }
  ELSE {}

\* how often p is an entry of a duplicate group, and of unique_files
GroupEntries(p) ==
  Cardinality({ x \in UNION { { << g, i >> : i \in 1..Len(duplicates[g]) } :
                              g \in 1..Len(duplicates) } :
                duplicates[x[1]][x[2]].path = p })
UniqueEntries(p) ==
  Cardinality({ i \in 1..Len(unique_files) : unique_files[i].path = p })

\* C25: the loop over the hash candidates ends, whatever the candidates are,
\* and when find_duplicates has returned every file that got a hash is
\* exactly one entry of the output: of one duplicate group or of
\* unique_files, never of both and never twice.
C25_ResolutionTerminatesExactlyOnce ==
  /\ (tool = "v2" /\ pc = "resolving") ~> (pc # "resolving")
  /\ [](Returned =>
          \A p \in Candidates : GroupEntries(p) + UniqueEntries(p) = 1)

\* three candidates of one digest, no two of them identical and one of them
\* impossible to read, have all been listed as unique
C25_Witness ==
  /\ Returned /\ Len(tree) = 3 /\ Candidates = {1, 2, 3}
  /\ \A p \in Paths : cache.data[cache_key(p, tree[p])] = cache.data[cache_key(1, tree[1])]
  /\ \E p \in Paths : ~tree[p].readable
  /\ duplicates = <<>> /\ UniquePaths = {1, 2, 3} /\ Len(unique_files) = 3


\* the process_file calls that have copied their file
MediaCopied == { f \in DOMAIN media_pc : media_pc[f] \in {"store", "true"} }

\* C26 (as claimed): whatever the interleaving of the pool threads, no two
\* source files are copied to the same target path; stated for its weakest
\* case, two files of different content, where one copy overwrites the
\* other.
C26_NoSharedTargetPath ==
  tool = "media" =>
    \A f, g \in MediaCopied :
      tree[f].content # tree[g].content => media_target[f] # media_target[g]


-----------------------------------------------------------------------------
(* Content preservation of the merge tool, checked under SpecWalk *)

\* C27 (as claimed): when main of the merge tool has completed, the target
\* folder holds a byte-identical copy of every file found under folder1 or
\* folder2: no copy was overwritten by a later copy of different content.
C27_EveryFileHasCopy ==
  (tool = "merge" /\ pc = "done") =>
    \A i \in 1..Len(tree) :
      \E t \in DOMAIN target_folder : target_folder[t] = tree[i].content


-----------------------------------------------------------------------------
(* compare_files of the v2 diff tool, called on any two files *)

MaxCompareLen == 2

\* the byte sequences of up to n bytes over two byte values
ByteStrings(n) == UNION { [1..k -> {1, 2}] : k \in 0..n }

CompareInputs ==
  { File(c, 1, r) : c \in ByteStrings(MaxCompareLen), r \in BOOLEAN }

CompareFiles ==
  /\ tool = "compare" /\ pc = "start"
  /\ returned' = << compare_files(tree[1], treeB[1]) >>
  /\ pc' = "done"
  /\ UNCHANGED << tool, tree, cacheFile, duplicates, dryrun, hash1, hash2 >>
  /\ UNCHANGED << v2vars, v1vars, diffvars, histvars, toolvars, target_dir >>

InitCompare ==
  /\ tool = "compare"
  /\ \E f1, f2 \in CompareInputs : tree = << f1 >> /\ treeB = << f2 >>
  /\ cacheFile = OtherCache("absent")
  /\ InitRun /\ InitExt
  /\ cache = OtherCache("unloaded")
  /\ run = 1 /\ first = NoFirst /\ stored = NoStores /\ lastCall = NoCall
  /\ diffOut = <<>>

NextCompare == CompareFiles

SpecCompare == InitCompare /\ [][NextCompare]_vars

\* C28 (as claimed): on any two readable files, files of different lengths,
\* an empty file and a file that is a prefix of the other included,
\* compare_files returns True exactly when the two byte sequences are equal.
C28_TrueIffSameBytes ==
  (tool = "compare" /\ pc = "done" /\ tree[1].readable /\ treeB[1].readable) =>
    (returned[1] <=> tree[1].content = treeB[1].content)


-----------------------------------------------------------------------------
(* The partition group_similar_images returns, checked under SpecGroup *)

\* the partition of the paths that a list of groups stands for
PartitionOf(groups) ==
  { { groups[g][i].path : i \in 1..Len(groups[g]) } : g \in 1..Len(groups) }

\* the number of entries of a list of groups
EntryCount(groups) == SumSeq([ g \in 1..Len(groups) |-> Len(groups[g]) ])

\* C29: for the same (fingerprint, path) pairs and the same threshold,
\* group_similar_images returns the same partition of the paths for every
\* order of its input list, and every input path is in exactly one group.
C29_PartitionIndependentOfOrder ==
  Grouped =>
    /\ \A order \in CompletionOrders(tree) :
         PartitionOf(group_similar_images(HashesInOrder(tree, order), hash_threshold))
           = PartitionOf(image_groups)
    /\ UNION PartitionOf(image_groups) = HashedPaths(tree)
    /\ EntryCount(image_groups) = Cardinality(HashedPaths(tree))

\* three images came in an order that is not the order of their fingerprint
\* values, two of them with one fingerprint, and fell into two groups
C29_Witness ==
  /\ Grouped /\ Len(hashes) = 3 /\ Len(image_groups) = 2
  /\ IntOfHex(hashes[1].hash) > IntOfHex(hashes[2].hash)
  /\ hashes[1].hash = hashes[3].hash


-----------------------------------------------------------------------------
(* Termination of process_images *)

\* the steps of the main thread inside process_images
MainThread == StartThreads \/ PutImage \/ Join \/ PutNone \/ JoinThreads

\* the steps of worker w
WorkerThread(w) == WorkerGet(w) \/ WorkerHash(w) \/ WorkerTaskDone(w)

\* the main thread and every worker thread are scheduled again and again: a
\* thread that can take a step and stays able to take it does take one
SpecImagesFair ==
  /\ InitImages /\ [][NextImages]_vars
  /\ WF_vars(MainThread)
  /\ \A w \in 1..MaxThreads : WF_vars(WorkerThread(w))

\* process_images has returned
ProcessImagesReturned == tool = "images" /\ pc \in {"hashed", "grouped", "done"}

\* C30: for num_threads >= 1 and any list of image paths, paths whose
\* hashing fails included, process_images returns under every interleaving
\* of the threads; q.join() returns with every queued path marked done, and
\* on return the queue is empty and every worker has taken one None and has
\* exited.
C30_ProcessImagesTerminates ==
  /\ <>ProcessImagesReturned
  /\ [](pc = "stop" => \A p \in 1..Len(tree) : p \notin Range(queue))
  /\ [](ProcessImagesReturned =>
          /\ queue = <<>>
          /\ \A w \in Workers : worker_pc[w] = "exited" /\ worker_item[w] = Sentinel)

\* two workers have hashed two images, one of which could not be hashed,
\* and process_images has returned
C30_Witness ==
  /\ ProcessImagesReturned /\ pc = "hashed"
  /\ num_threads = 2 /\ Len(tree) = 2 /\ Len(hashes) = 1
  /\ \A w \in Workers : worker_pc[w] = "exited"

====
